---------------------------- MODULE Spec2Model ----------------------------
(***************************************************************************)
(* Model of the Kubernetes application operator of sysinv                  *)
(* (sysinv/conductor/kube_app.py): AppOperator and DockerHelper.           *)
(*                                                                         *)
(* One application name with two versions (v1, v2) is operated on by one   *)
(* operation thread (upload, apply, update, remove, delete), one           *)
(* user-abort thread (perform_app_abort) and the progress monitor of an    *)
(* armada request.  The conductor process can die and restart, which runs  *)
(* _clear_stuck_applications.                                              *)
(*                                                                         *)
(* Collaborators (manifest read, cluster API, helm, docker, file system,   *)
(* database reads and release records) can fail wherever the code calls    *)
(* them.  Writes of the Status Record itself (kube_app.save) and the fault *)
(* API are taken to succeed: no property of a persisted status can be      *)
(* stated of a store that refuses the write.                               *)
(***************************************************************************)
EXTENDS Integers, Sequences, FiniteSets, TLC

(***************************************************************************)
(* Bounds of the model                                                     *)
(***************************************************************************)
MaxOps == 2
MaxAborts == 1
MaxRestarts == 1

(***************************************************************************)
(* Program constants                                                       *)
(***************************************************************************)
MAX_DOWNLOAD_ATTEMPTS == 3
INSTALLATION_TIMEOUT == 3600
CHARTS_PENDING_INSTALL_ITERATIONS == 60

\* application names: one of each kind the code distinguishes
HELM_APP_OPENSTACK == "stx-openstack"
HELM_APP_PLATFORM == "platform-integ-apps"
CUSTOM_APP == "custom-app"
AppNames == {HELM_APP_OPENSTACK, HELM_APP_PLATFORM, CUSTOM_APP}
HELM_APPS_PLATFORM_MANAGED == {HELM_APP_PLATFORM}
SystemApps == {HELM_APP_OPENSTACK, HELM_APP_PLATFORM}

\* lifecycle statuses
APP_UPLOAD_IN_PROGRESS == "uploading"
APP_UPLOAD_SUCCESS == "uploaded"
APP_UPLOAD_FAILURE == "upload-failed"
APP_APPLY_IN_PROGRESS == "applying"
APP_APPLY_SUCCESS == "applied"
APP_APPLY_FAILURE == "apply-failed"
APP_REMOVE_IN_PROGRESS == "removing"
APP_REMOVE_FAILURE == "remove-failed"
APP_UPDATE_IN_PROGRESS == "updating"
APP_RECOVER_IN_PROGRESS == "recovering"
APP_INACTIVE_STATE == "inactive"
NoRecord == "no-record"

InProgress == {APP_UPLOAD_IN_PROGRESS, APP_APPLY_IN_PROGRESS,
               APP_UPDATE_IN_PROGRESS, APP_RECOVER_IN_PROGRESS,
               APP_REMOVE_IN_PROGRESS}

\* alarms (fm_constants.FM_ALARM_ID_APPLICATION_*)
NoAlarm == "no-alarm"
ALARM_APPLY_FAILED == "alarm-apply-failed"
ALARM_UPLOAD_FAILED == "alarm-upload-failed"
ALARM_REMOVE_FAILED == "alarm-remove-failed"
ALARM_APPLYING == "alarm-applying"
ALARM_UPDATING == "alarm-updating"

\* progress texts, by kind
NoProgress == "none"
APP_PROGRESS_ABORTED == "operation aborted"
APP_PROGRESS_ABORTED_BY_USER == "operation aborted by user"
APP_PROGRESS_COMPLETED == "completed"
ProgressReason == "reason of the failure"
ProgressStep == "step in progress"
ProgressMonitor == "processing chart"
ProgressReset == "unexpected process termination"
ProgressUpdateCleanup == "cleanup application version"
ProgressUpdateCompleted == "update completed"
ProgressUpdateCleanupFailed == "update completed, cleanup failed"
ProgressRecoverInProgress == "update aborted, recover in progress"
ProgressRecoverCompleted == "update aborted, recover completed"
ProgressRecoverCleanupFailed == "update aborted, recover completed, cleanup failed"
ProgressRecoverAborted == "update aborted, recover aborted"

\* exceptions
NoExc == "none"
KubeAppUploadFailure == "KubeAppUploadFailure"
KubeAppApplyFailure == "KubeAppApplyFailure"
KubeAppAbort == "KubeAppAbort"
OtherException == "Exception"

\* versions of the application and the chart releases of their manifests
Versions == {"v1", "v2"}
Releases == {"ra", "rb", "rc"}
ChartList(v) == IF v = "v1" THEN <<"ra", "rb">> ELSE <<"rb", "rc">>
ChartsOf(v) == {ChartList(v)[k] : k \in 1..Len(ChartList(v))}
\* the sets of releases a run over the charts in manifest order can have
\* handled when it stops: the prefixes of the chart list within rs
Prefixes(v, rs) ==
    {{ChartList(v)[k] : k \in 1..n} \cap rs : n \in 0..Len(ChartList(v))}
Other(v) == IF v = "v1" THEN "v2" ELSE "v1"

VARIABLES
    appName,          \* the application name all requests are about
    phase,            \* "startup" while AppOperator.__init__ runs, else "ready"
    todo,             \* records _clear_stuck_applications has yet to visit
    status,           \* Status Record: lifecycle status, per version
    progress,         \* Status Record: progress text, per version
    active,           \* Status Record: active flag, per version
    relVersion,       \* Release Version Records, per version: release -> revision
    deployed,         \* revisions deployed in the cluster, per release (0 = none)
    files,            \* the on-disk tree of a version exists
    alarm,            \* the alarm set for the application
    abort_requested,  \* AppOperator.abort_requested: name -> flag
    container,        \* armada container: "absent", "stopped" or "running"
    armadaLock,       \* the armada lock custom resource exists
    registries_info,  \* DockerHelper.registries_info: "default" or "custom"
    op,               \* operation of the operation thread, "none" if idle
    pc,               \* position of the operation thread
    loc,              \* local variables of the operation thread
    retval,           \* what the finished operation returned or raised
    abortPc,          \* position of the abort thread
    cnt,              \* counters that bound the behaviours
    gh,               \* history of the current operation (not program state)
    manifest_file,    \* documents of the manifest file handed to the parser
    charts,           \* what _get_list_of_charts returned or raised
    dict_order,       \* iteration order of the interpreter's dictionaries
    monitor,          \* progress monitor task of the armada request
    mqueue,           \* stop-signal queue of the monitor task
    monPc,            \* position in _make_armada_request_with_monitor
    elapsed,          \* seconds the monitor has run under its Timeout
    new_status,       \* new_status of the monitor's _update_app_status call
    docker_params,    \* user registries are configured (service parameters)
    app_lock,         \* AppOperator._lock: the thread holding it, 0 if free
    docker_lock,      \* DockerHelper._lock: the thread holding it, 0 if free
    tapp,             \* the application each worker thread serves
    tpc,              \* position of each worker thread
    tloc,             \* local variables of each worker thread
    kube_app,         \* Status Record of each application the threads serve
    armada_request    \* a rollback request inside make_armada_request

\* the operator with its store, cluster and threads
operatorVars == <<appName, phase, todo, status, progress, active, relVersion,
                  deployed, files, alarm, abort_requested, container,
                  armadaLock, registries_info, op, pc, loc, retval, abortPc,
                  cnt, gh>>
\* the manifest parser and the monitored request, each studied on its own
parserVars == <<manifest_file, charts, dict_order>>
monitorVars == <<monitor, mqueue, monPc, elapsed, new_status>>
\* worker threads sharing the two locks, studied on their own
threadVars == <<docker_params, app_lock, docker_lock, tapp, tpc, tloc,
               kube_app>>
\* make_armada_request serving a rollback request, studied on its own
requestVars == <<armada_request>>
unitVars == <<parserVars, monitorVars, threadVars, requestVars>>

vars == <<operatorVars, unitVars>>

dbVars == <<status, progress, active, relVersion>>
opVars == <<op, pc, loc, retval>>
abortVars == <<abortPc>>
dockerVars == <<container, armadaLock, registries_info>>

(***************************************************************************)
(* Persistent store (sysinv dbapi), by the semantics the operator uses     *)
(***************************************************************************)
Exists(v) == status[v] # NoRecord

\* kube_app_get(name): the record of the name that is not inactive
ActiveRecords == {v \in Versions : Exists(v) /\ status[v] # APP_INACTIVE_STATE}
kube_app_get_ok == Cardinality(ActiveRecords) = 1
kube_app_get == CHOOSE v \in ActiveRecords : TRUE

\* kube_app_get_inactive(name): the inactive records of the name
kube_app_get_inactive == {v \in Versions : status[v] = APP_INACTIVE_STATE}

EmptyRel == [r \in {} |-> 0]

(***************************************************************************)
(* Abort Registry                                                          *)
(***************************************************************************)
\* AppOperator._register_app_abort
RegisterAppAbort(reg, name) ==
    [n \in (DOMAIN reg) \cup {name} |-> IF n = name THEN FALSE ELSE reg[n]]

\* AppOperator._deregister_app_abort
DeregisterAppAbort(reg, name) ==
    [n \in (DOMAIN reg) \ {name} |-> reg[n]]

\* AppOperator.is_app_aborted
is_app_aborted(name) ==
    IF name \in DOMAIN abort_requested THEN abort_requested[name] ELSE FALSE

\* AppOperator._set_abort_flag
SetAbortFlag(reg, name) ==
    [n \in (DOMAIN reg) \cup {name} |-> IF n = name THEN TRUE ELSE reg[n]]

(***************************************************************************)
(* Application.update_status and AppOperator._abort_operation              *)
(***************************************************************************)
\* Application.update_status: an empty progress leaves the progress as it is
NewProgress(old, new) == IF new = NoProgress THEN old ELSE new

\* variant of AbortStatus that has no case for recover-in-progress
AbortStatusNoRecover(name, st, reset_status) ==
    CASE st = APP_UPLOAD_IN_PROGRESS -> APP_UPLOAD_FAILURE
      [] st \in {APP_APPLY_IN_PROGRESS, APP_UPDATE_IN_PROGRESS} ->
            IF reset_status /\ name \in HELM_APPS_PLATFORM_MANAGED
            THEN APP_UPLOAD_SUCCESS ELSE APP_APPLY_FAILURE
      [] st = APP_REMOVE_IN_PROGRESS -> APP_REMOVE_FAILURE
      [] OTHER -> st

\* variant of AbortStatus that takes apply-in-progress to apply-success
AbortStatusApplySucceeds(name, st, reset_status) ==
    CASE st = APP_UPLOAD_IN_PROGRESS -> APP_UPLOAD_FAILURE
      [] st = APP_APPLY_IN_PROGRESS -> APP_APPLY_SUCCESS
      [] st \in {APP_UPDATE_IN_PROGRESS, APP_RECOVER_IN_PROGRESS} ->
            IF reset_status /\ name \in HELM_APPS_PLATFORM_MANAGED
            THEN APP_UPLOAD_SUCCESS ELSE APP_APPLY_FAILURE
      [] st = APP_REMOVE_IN_PROGRESS -> APP_REMOVE_FAILURE
      [] OTHER -> st

\* the status _abort_operation moves a record to
AbortStatus(name, st, reset_status) ==
    CASE st = APP_UPLOAD_IN_PROGRESS -> APP_UPLOAD_FAILURE
      [] st \in {APP_APPLY_IN_PROGRESS, APP_UPDATE_IN_PROGRESS,
                 APP_RECOVER_IN_PROGRESS} ->
            IF reset_status /\ name \in HELM_APPS_PLATFORM_MANAGED
            THEN APP_UPLOAD_SUCCESS ELSE APP_APPLY_FAILURE
      [] st = APP_REMOVE_IN_PROGRESS -> APP_REMOVE_FAILURE
      [] OTHER -> st

\* the alarm _abort_operation leaves set
AbortAlarm(name, st, reset_status, old) ==
    CASE st = APP_UPLOAD_IN_PROGRESS -> ALARM_UPLOAD_FAILED
      [] st \in {APP_APPLY_IN_PROGRESS, APP_UPDATE_IN_PROGRESS,
                 APP_RECOVER_IN_PROGRESS} ->
            IF reset_status /\ name \in HELM_APPS_PLATFORM_MANAGED
            THEN NoAlarm ELSE ALARM_APPLY_FAILED
      [] st = APP_REMOVE_IN_PROGRESS -> ALARM_REMOVE_FAILED
      [] OTHER -> old

\* the progress _abort_operation writes
AbortProgress(st, prog, user_initiated, reset_status, old) ==
    IF st \notin InProgress THEN old
    ELSE IF reset_status THEN ProgressReset
    ELSE IF user_initiated THEN APP_PROGRESS_ABORTED_BY_USER
    ELSE NewProgress(old, prog)

\* AppOperator._abort_operation(app, operation, progress, user_initiated)
\* on the record v, as the relation between the store before and after
AbortOperation(v, prog, user_initiated, reset_status) ==
    /\ status' = [status EXCEPT
                    ![v] = AbortStatus(appName, status[v], reset_status)]
    /\ progress' = [progress EXCEPT
                    ![v] = AbortProgress(status[v], prog, user_initiated,
                                         reset_status, progress[v])]
    /\ alarm' = AbortAlarm(appName, status[v], reset_status, alarm)

(***************************************************************************)
(* Initial state: a fresh system, the conductor process starting           *)
(***************************************************************************)
NoLoc == [ver |-> "v1", from |-> "v1", caller |-> "none", operation |-> "none",
          ready |-> TRUE, exc |-> NoExc, reason |-> FALSE, user |-> FALSE,
          result |-> FALSE, i |-> 0, idx |-> 0, apr |-> TRUE,
          releases |-> {}, nested |-> "none"]

NoGh == [abortSet |-> FALSE, applyReqs |-> 0, applyOk |-> FALSE,
         refreshed |-> FALSE, prevApplyOk |-> FALSE, rollbackReq |-> FALSE,
         exhausted |-> FALSE, jobsDeleted |-> {}, rollbackOk |-> FALSE]

\* The conductor starts on a system with no application, with version v1
\* uploaded, with version v1 applied, or with version v2 applied after an
\* update from v1 that left the revision of the release they share as it
\* was (each the result of earlier requests).
InitialSystems == {"fresh", "uploaded", "applied", "updated"}

InitOperator ==
    /\ appName \in AppNames
    /\ phase = "startup"
    /\ todo = {}
    /\ \E sys \in InitialSystems :
          IF sys = "updated"
          THEN /\ status = [v \in Versions |->
                     IF v = "v1" THEN APP_INACTIVE_STATE
                     ELSE APP_APPLY_SUCCESS]
               /\ progress = [v \in Versions |->
                     IF v = "v1" THEN APP_PROGRESS_COMPLETED
                     ELSE ProgressUpdateCompleted]
               /\ active = [v \in Versions |-> TRUE]
               /\ relVersion = [v \in Versions |->
                                  [r \in ChartsOf(v) |-> 1]]
               /\ deployed = [r \in Releases |->
                                IF r \in ChartsOf("v2") THEN 1 ELSE 0]
               /\ files = [v \in Versions |-> v = "v2"]
          ELSE
          /\ status = [v \in Versions |->
                IF v = "v2" \/ sys = "fresh" THEN NoRecord
                ELSE IF sys = "uploaded" THEN APP_UPLOAD_SUCCESS
                ELSE APP_APPLY_SUCCESS]
          /\ progress = [v \in Versions |->
                IF v = "v2" \/ sys = "fresh" THEN NoProgress
                ELSE APP_PROGRESS_COMPLETED]
          /\ active = [v \in Versions |-> v = "v1" /\ sys = "applied"]
          /\ relVersion = [v \in Versions |->
                IF v = "v2" \/ sys = "fresh" THEN EmptyRel
                ELSE [r \in ChartsOf("v1") |-> IF sys = "applied" THEN 1 ELSE 0]]
          /\ deployed = [r \in Releases |->
                IF sys = "applied" /\ r \in ChartsOf("v1") THEN 1 ELSE 0]
          /\ files = [v \in Versions |-> v = "v1" /\ sys # "fresh"]
    /\ alarm = NoAlarm
    /\ abort_requested = [n \in {} |-> FALSE]
    /\ container = "absent"
    /\ armadaLock = FALSE
    /\ registries_info = "default"
    /\ op = "none"
    /\ pc = "idle"
    /\ loc = NoLoc
    /\ retval = "none"
    /\ abortPc = "idle"
    /\ cnt = [ops |-> 0, aborts |-> 0, restarts |-> 0]
    /\ gh = NoGh

\* no worker thread runs and no request is studied
NoThreads ==
    /\ armada_request = <<>>
    /\ docker_params = FALSE
    /\ app_lock = 0 /\ docker_lock = 0
    /\ tapp = <<>> /\ tpc = <<>> /\ tloc = <<>> /\ kube_app = <<>>

\* no request is being monitored
NoMonitor ==
    /\ monitor = "none" /\ mqueue = <<>> /\ monPc = "idle" /\ elapsed = 0
    /\ new_status = "none"

\* no manifest is being parsed and no request is being monitored
NotParsed == [raised |-> FALSE, list |-> <<>>, parses |-> 0]
InitUnits ==
    /\ manifest_file = <<>>
    /\ charts = NotParsed
    /\ dict_order = [groups |-> <<>>, charts |-> <<>>]
    /\ NoMonitor
    /\ NoThreads

Init == InitOperator /\ InitUnits

(***************************************************************************)
(* Process restart and AppOperator.__init__                                *)
(***************************************************************************)
\* The conductor process dies at any point and is started again: what the
\* process held in memory is gone, the store, the alarms, the cluster and
\* the container stay.  bootstrap: the ansible bootstrap flag file exists,
\* in which case __init__ skips _clear_stuck_applications.
Restart ==
    /\ phase = "ready"
    /\ cnt.restarts < MaxRestarts
    \* after the restart the model follows the startup clean-up only
    /\ cnt' = [ops |-> MaxOps, aborts |-> MaxAborts,
               restarts |-> cnt.restarts + 1]
    /\ \E bootstrap \in BOOLEAN :
          IF bootstrap
          THEN phase' = "ready" /\ todo' = {}
          ELSE phase' = "startup" /\ todo' = {v \in Versions : Exists(v)}
    /\ abort_requested' = [n \in {} |-> FALSE]
    /\ registries_info' = "default"
    /\ op' = "none" /\ pc' = "idle" /\ loc' = NoLoc /\ retval' = "none"
    /\ abortPc' = "idle"
    /\ gh' = NoGh
    /\ UNCHANGED <<unitVars, appName, dbVars, deployed, files, alarm, container,
                   armadaLock>>

\* one iteration of the loop of _clear_stuck_applications
ClearStuckApplication ==
    /\ phase = "startup"
    /\ \E v \in todo :
          /\ todo' = todo \ {v}
          /\ IF status[v] \in InProgress
             THEN AbortOperation(v, APP_PROGRESS_ABORTED, FALSE, TRUE)
             ELSE UNCHANGED <<status, progress, alarm>>
    /\ UNCHANGED <<unitVars, appName, phase, active, relVersion, deployed, files,
                   abort_requested, dockerVars, opVars, abortVars, cnt, gh>>

\* the end of _clear_stuck_applications: _clear_armada_locks, a best effort
\* delete of the lock resource
ClearArmadaLocks ==
    /\ phase = "startup"
    /\ todo = {}
    /\ phase' = "ready"
    /\ \E ok \in BOOLEAN : armadaLock' = IF ok THEN FALSE ELSE armadaLock
    /\ UNCHANGED <<unitVars, appName, todo, dbVars, deployed, files, alarm,
                   abort_requested, container, registries_info, opVars,
                   abortVars, cnt, gh>>

(***************************************************************************)
(* perform_app_abort (the user-abort thread)                               *)
(***************************************************************************)
\* variant of AbortableStatuses: every in-progress status
AbortableAnyInProgress == InProgress

\* variant of AbortableStatuses: an upload in progress too
AbortableAlsoUpload ==
    {APP_APPLY_IN_PROGRESS, APP_UPDATE_IN_PROGRESS, APP_REMOVE_IN_PROGRESS,
     APP_UPLOAD_IN_PROGRESS}

\* the statuses on which perform_app_abort acts
AbortableStatuses ==
    {APP_APPLY_IN_PROGRESS, APP_UPDATE_IN_PROGRESS, APP_REMOVE_IN_PROGRESS}

\* operations that register in the Abort Registry
RegisteringOps == {"apply", "update", "remove"}
InFlight == op \in RegisteringOps /\ pc # "done"

\* perform_app_abort, first part: read the latest status from the database
AbortRead ==
    /\ phase = "ready"
    /\ abortPc = "idle"
    /\ cnt.aborts < MaxAborts
    /\ cnt' = [cnt EXCEPT !.aborts = @ + 1]
    \* kube_app_get raises, or the status is none of the three: the
    \* request ends here
    /\ abortPc' = IF kube_app_get_ok
                     /\ status[kube_app_get] \in AbortableStatuses
                  THEN "set" ELSE "idle"
    /\ UNCHANGED <<unitVars, appName, phase, todo, dbVars, deployed, files, alarm,
                   abort_requested, dockerVars, opVars, gh>>

\* perform_app_abort, second part: _set_abort_flag
AbortSetFlag ==
    /\ abortPc = "set"
    /\ abort_requested' = SetAbortFlag(abort_requested, appName)
    /\ abortPc' = "stop"
    /\ gh' = [gh EXCEPT !.abortSet = @ \/ InFlight]
    /\ UNCHANGED <<unitVars, appName, phase, todo, dbVars, deployed, files, alarm,
                   dockerVars, opVars, cnt>>

\* DockerHelper.stop_armada_request: stops the container if it is running;
\* a docker error is logged and swallowed
StopArmadaRequest(c, dockerOk) ==
    IF c = "running" /\ dockerOk THEN "stopped" ELSE c

\* perform_app_abort, third part, under the AppOperator lock:
\* stop_armada_request and _clear_armada_locks, both best effort
AbortStop ==
    /\ abortPc = "stop"
    /\ \E dockerOk \in BOOLEAN, kubeOk \in BOOLEAN :
          /\ container' = StopArmadaRequest(container, dockerOk)
          /\ armadaLock' = IF kubeOk THEN FALSE ELSE armadaLock
    /\ abortPc' = "idle"
    /\ UNCHANGED <<unitVars, appName, phase, todo, dbVars, deployed, files, alarm,
                   abort_requested, registries_info, opVars, cnt, gh>>

(***************************************************************************)
(* Helpers of the operation thread                                         *)
(***************************************************************************)
\* AppOperator._update_app_status(app, new_status, new_progress)
UpdateAppStatus(v, st, prog) ==
    /\ status' = [status EXCEPT ![v] = st]
    /\ progress' = [progress EXCEPT ![v] = NewProgress(@, prog)]

\* AppOperator._update_app_status(app, new_progress=...)
UpdateAppProgress(v, prog) ==
    /\ progress' = [progress EXCEPT ![v] = NewProgress(@, prog)]
    /\ UNCHANGED status

\* DockerHelper._start_armada_service: get, restart or create the container
StartArmadaService(c, dockerOk) == IF dockerOk THEN "running" ELSE c

\* the operation returns rv (or raises it) to its caller; of its locals
\* only the records it was about are kept for reference
Finish(rv) ==
    /\ pc' = "done"
    /\ retval' = rv
    /\ loc' = [NoLoc EXCEPT !.ver = loc.ver, !.from = loc.from,
                            !.caller = loc.caller]

CanStart ==
    /\ phase = "ready"
    /\ op = "none"
    /\ cnt.ops < MaxOps
    /\ cnt' = [cnt EXCEPT !.ops = @ + 1]

\* the RPC handler has returned; the operation thread is idle again
Return ==
    /\ pc = "done"
    /\ op' = "none" /\ pc' = "idle" /\ loc' = NoLoc /\ retval' = "none"
    /\ gh' = [NoGh EXCEPT !.prevApplyOk = (op = "apply" /\ retval = "True")]
    /\ UNCHANGED <<unitVars, appName, phase, todo, dbVars, deployed, files, alarm,
                   abort_requested, dockerVars, abortVars, cnt>>

(***************************************************************************)
(* perform_app_upload                                                      *)
(***************************************************************************)
UploadFails == {KubeAppUploadFailure, OtherException}

\* request: upload of version v1 of an application that has no record yet;
\* the record arrives with status upload-in-progress
StartUpload ==
    /\ CanStart
    /\ \A v \in Versions : ~Exists(v)
    /\ status' = [status EXCEPT !["v1"] = APP_UPLOAD_IN_PROGRESS]
    /\ progress' = [progress EXCEPT !["v1"] = NoProgress]
    /\ active' = [active EXCEPT !["v1"] = FALSE]
    /\ op' = "upload" /\ pc' = "up_start" /\ retval' = "none"
    /\ loc' = [NoLoc EXCEPT !.ver = "v1"]
    /\ gh' = NoGh
    /\ UNCHANGED <<unitVars, appName, phase, todo, relVersion, deployed, files, alarm,
                   abort_requested, dockerVars, abortVars>>

\* version check and, for a URL, the download of the tarfile
UploadBegin ==
    /\ pc = "up_start"
    /\ \E o \in {"unsupported", "local", "url", "url-failed", "url-error"} :
          /\ loc' = [loc EXCEPT
                !.exc = CASE o \in {"unsupported", "url-failed"} -> KubeAppUploadFailure
                          [] o = "url-error" -> OtherException
                          [] OTHER -> NoExc,
                !.reason = o \in {"unsupported", "url-failed"}]
          /\ pc' = IF o \in {"local", "url"} THEN "up_extract" ELSE "up_except"
          /\ IF o \in {"url", "url-failed", "url-error"}
             THEN UpdateAppProgress(loc.ver, ProgressStep)
             ELSE UNCHANGED <<status, progress>>
    /\ UNCHANGED <<unitVars, appName, phase, todo, active, relVersion, deployed, files,
                   alarm, abort_requested, dockerVars, op, retval, abortVars,
                   cnt, gh>>

\* extraction of the tarfile and copy of the manifest
UploadExtract ==
    /\ pc = "up_extract"
    /\ UpdateAppProgress(loc.ver, ProgressStep)
    /\ \E o \in {"ok"} \cup UploadFails :
          /\ loc' = [loc EXCEPT !.exc = IF o = "ok" THEN NoExc ELSE o,
                                !.reason = (o = KubeAppUploadFailure)]
          /\ pc' = IF o = "ok" THEN "up_validate" ELSE "up_except"
          \* the directories of the version are created first
          /\ files' = [files EXCEPT ![loc.ver] = TRUE]
    /\ UNCHANGED <<unitVars, appName, phase, todo, active, relVersion, deployed, alarm,
                   abort_requested, dockerVars, op, retval, abortVars, cnt, gh>>

\* make_armada_request('validate')
UploadValidate ==
    /\ pc = "up_validate"
    /\ \E dockerOk \in BOOLEAN, valid \in BOOLEAN :
          /\ container' = StartArmadaService(container, dockerOk)
          /\ IF dockerOk /\ valid
             THEN /\ UpdateAppProgress(loc.ver, ProgressStep)
                  /\ pc' = "up_charts"
                  /\ loc' = loc
             ELSE /\ UNCHANGED <<status, progress>>
                  /\ pc' = "up_except"
                  /\ loc' = [loc EXCEPT !.exc = KubeAppUploadFailure,
                                        !.reason = TRUE]
    /\ UNCHANGED <<unitVars, appName, phase, todo, active, relVersion, deployed, files,
                   alarm, abort_requested, armadaLock, registries_info, op,
                   retval, abortVars, cnt, gh>>

\* AppOperator._create_app_releases_version: records with revision 0 for the
\* charts; nothing is done if the application already has release records.
\* (The creation of a single record can fail and is then logged and
\* skipped; the model follows the runs in which the records are created.)
CreateAppReleasesVersion(old, created) ==
    IF DOMAIN old # {} THEN old ELSE [r \in created |-> 0]

\* chart validation and upload, images list, patch dependencies, release
\* records, then status upload-success
UploadCharts ==
    /\ pc = "up_charts"
    /\ \E o \in {"ok"} \cup UploadFails :
          IF o = "ok" /\ kube_app_get_ok
          THEN /\ relVersion' = [relVersion EXCEPT ![kube_app_get] =
                        CreateAppReleasesVersion(@, ChartsOf(loc.ver))]
               /\ UpdateAppStatus(loc.ver, APP_UPLOAD_SUCCESS,
                                  APP_PROGRESS_COMPLETED)
               /\ IF op = "upload"
                  THEN Finish("app")
                  ELSE pc' = "upd_uploaded" /\ retval' = retval /\ loc' = loc
          ELSE /\ loc' = [loc EXCEPT
                            !.exc = IF o = "ok" THEN OtherException ELSE o,
                            !.reason = (o = KubeAppUploadFailure)]
               /\ pc' = "up_except"
               /\ UNCHANGED <<status, progress, relVersion, retval>>
    /\ UNCHANGED <<unitVars, appName, phase, todo, active, deployed, files, alarm,
                   abort_requested, dockerVars, op, abortVars, cnt, gh>>

\* the two except clauses of perform_app_upload
UploadExcept ==
    /\ pc = "up_except"
    /\ IF loc.exc = KubeAppUploadFailure
       THEN AbortOperation(loc.ver, ProgressReason, FALSE, FALSE)
       ELSE AbortOperation(loc.ver, APP_PROGRESS_ABORTED, FALSE, FALSE)
    /\ IF op = "upload"
       THEN Finish(KubeAppUploadFailure)
       ELSE /\ pc' = "upd_except" /\ retval' = retval
            /\ loc' = [loc EXCEPT !.exc = KubeAppUploadFailure]
    /\ UNCHANGED <<unitVars, appName, phase, todo, active, relVersion, deployed, files,
                   abort_requested, dockerVars, op, abortVars, cnt, gh>>

(***************************************************************************)
(* Deployment tool (armada) and the cluster, as the operator sees them     *)
(***************************************************************************)
\* revisions after an apply request that deployed the releases in done
Bump(dep, done) == [r \in Releases |-> IF r \in done THEN dep[r] + 1 ELSE dep[r]]

\* variant of Purge: the deleted releases stay deployed
PurgeNothing(dep, done) == dep

\* revisions after a delete request that deleted the releases in done
Purge(dep, done) == [r \in Releases |-> IF r \in done THEN 0 ELSE dep[r]]

\* exit of an in-container command: a stopped container fails the command
ExitCodes(c) == IF c = "running" THEN {TRUE, FALSE} ELSE {FALSE}

\* armada holds its lock resource while it runs an apply, delete or rollback
\* and releases it when the command ends; a command cut short by a stop of
\* the container leaves the lock behind
ArmadaLockAcquire(l, dockerOk) == IF dockerOk THEN TRUE ELSE l
ArmadaLockRelease(l, c) == IF c = "running" THEN FALSE ELSE l

\* positions at which an armada request with its progress monitor is running
RequestingPcs == {"ap_requesting", "rm_requesting", "rb_requesting",
                  "rc_requesting"}

(***************************************************************************)
(* perform_app_apply                                                       *)
(***************************************************************************)
\* variant of ApplyOwnsAbort: the apply nested in an update registers and
\* deregisters as well
ApplyAlwaysOwnsAbort(caller) == TRUE

\* "if not caller": a directly invoked apply registers, raises the alarm,
\* deregisters and clears the alarm itself; an apply invoked by update
\* leaves all that to perform_app_update
ApplyOwnsAbort(caller) == caller = "none"

\* entry of perform_app_apply: registration and in-progress alarm
ApplyEntry(caller) ==
    /\ abort_requested' = IF ApplyOwnsAbort(caller)
                          THEN RegisterAppAbort(abort_requested, appName)
                          ELSE abort_requested
    /\ alarm' = IF caller = "none" THEN ALARM_APPLYING ELSE alarm

\* request: apply of the uploaded or applied version; the record arrives
\* with status apply-in-progress
StartApply ==
    /\ CanStart
    /\ kube_app_get_ok
    /\ status[kube_app_get] \in {APP_UPLOAD_SUCCESS, APP_APPLY_SUCCESS,
                                 APP_APPLY_FAILURE}
    /\ status' = [status EXCEPT ![kube_app_get] = APP_APPLY_IN_PROGRESS]
    /\ ApplyEntry("none")
    /\ op' = "apply" /\ pc' = "ap_charts" /\ retval' = "none"
    /\ loc' = [NoLoc EXCEPT !.ver = kube_app_get]
    /\ gh' = [NoGh EXCEPT !.prevApplyOk = gh.prevApplyOk]
    /\ UNCHANGED <<unitVars, appName, phase, todo, progress, active, relVersion,
                   deployed, files, dockerVars, abortVars>>

\* variant of ApplyTry2Pc: an apply that is ready goes on without a request
\* to armada
ApplyTry2PcNoRequest(ready) == IF ~ready THEN "ap_fail" ELSE "ap_post"

\* variant of ApplyTry2Pc: the second try block does not look at ready
ApplyTry2PcIgnoreReady(ready) ==
    IF appName = HELM_APP_OPENSTACK THEN "ap_pending" ELSE "ap_manifest"

\* where the second try block of perform_app_apply begins
ApplyTry2Pc(ready) ==
    IF ~ready THEN "ap_fail"
    ELSE IF appName = HELM_APP_OPENSTACK THEN "ap_pending"
    ELSE "ap_manifest"

\* chart list, and for a system app the first checkpoint and the cluster
\* resources; then the progress of the overrides step
ApplyCharts ==
    /\ pc = "ap_charts"
    /\ \E chartsOk \in BOOLEAN, resourcesOk \in BOOLEAN :
          LET e == IF ~chartsOk THEN OtherException
                   ELSE IF appName \notin SystemApps THEN NoExc
                   ELSE IF is_app_aborted(appName) THEN KubeAppAbort
                   ELSE IF ~resourcesOk THEN OtherException
                   ELSE NoExc
          IN  /\ (appName \notin SystemApps \/ ~chartsOk) => resourcesOk
              /\ loc' = [loc EXCEPT !.exc = e, !.reason = (e # NoExc)]
              /\ pc' = IF e = NoExc THEN "ap_overrides" ELSE "ap_except"
              /\ IF e = NoExc
                 THEN UpdateAppProgress(loc.ver, ProgressStep)
                 ELSE UNCHANGED <<status, progress>>
    /\ UNCHANGED <<unitVars, appName, phase, todo, active, relVersion, deployed, files,
                   alarm, abort_requested, dockerVars, op, retval, abortVars,
                   cnt, gh>>

\* checkpoint, generation of the overrides, _get_overrides_files
ApplyOverrides ==
    /\ pc = "ap_overrides"
    /\ IF is_app_aborted(appName)
       THEN /\ loc' = [loc EXCEPT !.exc = KubeAppAbort, !.reason = TRUE]
            /\ pc' = "ap_except"
            /\ UNCHANGED <<status, progress>>
       ELSE \E o \in {"raise", "missing", "empty", "files"} :
              CASE o \in {"raise", "missing"} ->
                     \* _get_overrides_files returned None: the unpacking raises
                     /\ loc' = [loc EXCEPT !.exc = OtherException,
                                           !.reason = TRUE]
                     /\ pc' = "ap_except"
                     /\ UNCHANGED <<status, progress>>
                [] o = "empty" ->
                     /\ loc' = [loc EXCEPT !.ready = FALSE]
                     /\ pc' = ApplyTry2Pc(FALSE)
                     /\ UNCHANGED <<status, progress>>
                [] o = "files" ->
                     /\ loc' = loc
                     /\ pc' = "ap_download_chk"
                     /\ UpdateAppProgress(loc.ver, ProgressStep)
    /\ UNCHANGED <<unitVars, appName, phase, todo, active, relVersion, deployed, files,
                   alarm, abort_requested, dockerVars, op, retval, abortVars,
                   cnt, gh>>

\* checkpoint, then the head of _download_images up to the retry loop
ApplyDownloadBegin ==
    /\ pc = "ap_download_chk"
    /\ IF is_app_aborted(appName)
       THEN /\ loc' = [loc EXCEPT !.exc = KubeAppAbort, !.reason = TRUE]
            /\ pc' = "ap_except"
            /\ UNCHANGED registries_info
       ELSE \E o \in {"embedded", "list-error", "registries-error", "ok"},
               custom \in BOOLEAN :
              /\ (o \in {"embedded", "list-error"}) => ~custom
              /\ registries_info' = IF custom THEN "custom" ELSE registries_info
              /\ loc' = [loc EXCEPT
                    !.exc = CASE o \in {"embedded", "registries-error"}
                                   -> KubeAppApplyFailure
                              [] o = "list-error" -> OtherException
                              [] OTHER -> NoExc,
                    !.reason = (o # "ok"),
                    !.idx = IF o = "ok" THEN MAX_DOWNLOAD_ATTEMPTS - 1 ELSE 0]
              /\ pc' = IF o = "ok" THEN "ap_download" ELSE "ap_except"
    /\ UNCHANGED <<unitVars, appName, phase, todo, dbVars, deployed, files, alarm,
                   abort_requested, container, armadaLock, op, retval,
                   abortVars, cnt, gh>>

\* variant: no attempt is the last one
NoLastAttempt(idx) == FALSE

\* "if idx:" of the retry loop, idx counting down from
\* MAX_DOWNLOAD_ATTEMPTS - 1: the attempt at idx 0 is the last one
LastAttempt(idx) == idx = 0

\* one batch attempt of the retry loop of _download_images: all images
\* downloaded (the registry table is reset and the loop is left), or the
\* first failed image is met: the abort flag is read and the user's abort
\* raised, or the batch is given up and, unless it was the last one, the
\* loop goes on to wait (exhausted in the history: the attempt that failed
\* was the last one)
ApplyDownloadBatch ==
    /\ pc = "ap_download"
    /\ \E allOk \in BOOLEAN :
          IF allOk
          THEN /\ registries_info' = "default"
               /\ pc' = ApplyTry2Pc(TRUE)
               /\ loc' = [loc EXCEPT !.idx = 0]
               /\ gh' = gh
          ELSE /\ UNCHANGED registries_info
               /\ IF is_app_aborted(appName) \/ LastAttempt(loc.idx)
                  THEN /\ loc' = [loc EXCEPT !.exc = KubeAppApplyFailure,
                                             !.reason = TRUE, !.idx = 0]
                       /\ pc' = "ap_except"
                       /\ gh' = [gh EXCEPT !.exhausted =
                                    LastAttempt(loc.idx)]
                  ELSE /\ loc' = loc
                       /\ pc' = "ap_download_wait"
                       /\ gh' = gh
    /\ UNCHANGED <<unitVars, appName, phase, todo, dbVars, deployed, files,
                   alarm, abort_requested, container, armadaLock, op, retval,
                   abortVars, cnt>>

\* time.sleep(DOWNLOAD_WAIT_BEFORE_RETRY), then the next round of the loop
ApplyDownloadWait ==
    /\ pc = "ap_download_wait"
    /\ loc' = [loc EXCEPT !.idx = @ - 1]
    /\ pc' = "ap_download"
    /\ UNCHANGED <<unitVars, appName, phase, todo, dbVars, deployed, files,
                   alarm, abort_requested, dockerVars, op, retval, abortVars,
                   cnt, gh>>

\* first except clause: read of the abort flag
ApplyExcept ==
    /\ pc = "ap_except"
    /\ loc' = [loc EXCEPT !.user = is_app_aborted(appName)]
    /\ pc' = "ap_except2"
    /\ UNCHANGED <<unitVars, appName, phase, todo, dbVars, deployed, files, alarm,
                   abort_requested, dockerVars, op, retval, abortVars, cnt, gh>>

\* first except clause: _abort_operation, deregistration, raise
ApplyExceptRaise ==
    /\ pc = "ap_except2"
    /\ AbortOperation(loc.ver, ProgressReason, loc.user, FALSE)
    /\ abort_requested' = IF ApplyOwnsAbort(loc.caller)
                          THEN DeregisterAppAbort(abort_requested, appName)
                          ELSE abort_requested
    /\ IF loc.caller = "none"
       THEN Finish(KubeAppApplyFailure)
       ELSE /\ pc' = "upd_except" /\ retval' = retval
            /\ loc' = [loc EXCEPT !.exc = KubeAppApplyFailure]
    /\ UNCHANGED <<unitVars, appName, phase, todo, active, relVersion, deployed, files,
                   dockerVars, op, abortVars, cnt, gh>>

\* variant of PollAgain: one round more than the constant allows
PollOnceMore(i) == i < CHARTS_PENDING_INSTALL_ITERATIONS

\* for i in range(CHARTS_PENDING_INSTALL_ITERATIONS): round i is followed
\* by another round
PollAgain(i) == i + 1 < CHARTS_PENDING_INSTALL_ITERATIONS

\* stx-openstack: one iteration of the wait for charts in pending install
ApplyPending ==
    /\ pc = "ap_pending"
    /\ \E o \in {"clear", "pending", "error"} :
          CASE o = "clear" ->
                 /\ pc' = "ap_manifest" /\ loc' = [loc EXCEPT !.i = 0]
                 /\ UNCHANGED <<status, progress, alarm>>
            [] o = "error" ->
                 /\ pc' = "ap_fail" /\ loc' = [loc EXCEPT !.i = 0]
                 /\ UNCHANGED <<status, progress, alarm>>
            [] o = "pending" ->
                 IF is_app_aborted(appName)
                 THEN /\ pc' = "ap_fail" /\ loc' = [loc EXCEPT !.i = 0]
                      /\ UNCHANGED <<status, progress, alarm>>
                 ELSE IF PollAgain(loc.i)
                 THEN /\ pc' = pc /\ loc' = [loc EXCEPT !.i = @ + 1]
                      /\ UNCHANGED <<status, progress, alarm>>
                 ELSE \* timed out: _abort_operation, then the raise is caught
                      /\ AbortOperation(loc.ver, APP_PROGRESS_ABORTED,
                                        FALSE, FALSE)
                      /\ pc' = "ap_fail" /\ loc' = [loc EXCEPT !.i = 0]
    /\ UNCHANGED <<unitVars, appName, phase, todo, active, relVersion, deployed, files,
                   abort_requested, dockerVars, op, retval, abortVars, cnt, gh>>

\* progress of the apply step, checkpoint, start of the armada apply request
ApplyRequest ==
    /\ pc = "ap_manifest"
    /\ UpdateAppProgress(loc.ver, ProgressStep)
    /\ IF is_app_aborted(appName)
       THEN pc' = "ap_fail" /\ UNCHANGED <<container, armadaLock, gh>>
       ELSE \E dockerOk \in BOOLEAN :
              /\ container' = StartArmadaService(container, dockerOk)
              /\ armadaLock' = ArmadaLockAcquire(armadaLock, dockerOk)
              /\ pc' = IF dockerOk THEN "ap_requesting" ELSE "ap_fail"
              /\ gh' = IF dockerOk
                       THEN [gh EXCEPT !.applyReqs = @ + 1, !.applyOk = FALSE,
                                       !.refreshed = FALSE]
                       ELSE gh
    /\ UNCHANGED <<unitVars, appName, phase, todo, active, relVersion, deployed, files,
                   alarm, abort_requested, registries_info, op,
                   loc, retval, abortVars, cnt>>

\* the armada apply request returns
ApplyRequestDone ==
    /\ pc = "ap_requesting"
    /\ \E rc \in ExitCodes(container),
          done \in Prefixes(loc.ver, ChartsOf(loc.ver)) :
          /\ rc <=> (done = ChartsOf(loc.ver))
          /\ deployed' = Bump(deployed, done)
          /\ pc' = IF rc THEN "ap_post" ELSE "ap_fail"
          /\ gh' = [gh EXCEPT !.applyOk = rc]
    /\ armadaLock' = ArmadaLockRelease(armadaLock, container)
    /\ UNCHANGED <<unitVars, appName, phase, todo, dbVars, files, alarm, abort_requested,
                   container, registries_info, op, loc, retval, abortVars, cnt>>

\* variant of UpdateAppReleasesVersion that leaves the records as they are
KeepAppReleasesVersion(rel, dep, upd) == rel

\* AppOperator._update_app_releases_version: the records of the releases in
\* upd take the revision deployed in the cluster
UpdateAppReleasesVersion(rel, dep, upd) ==
    [r \in DOMAIN rel |-> IF r \in upd /\ dep[r] # 0 THEN dep[r] ELSE rel[r]]

\* the status of a successful apply
ApplySuccessStatus == APP_APPLY_SUCCESS

\* after a successful request: release records, status, active flag, alarm
ApplyPost ==
    /\ pc = "ap_post"
    /\ \E dbOk \in BOOLEAN :
          IF dbOk /\ kube_app_get_ok
          THEN /\ relVersion' = [relVersion EXCEPT ![kube_app_get] =
                      UpdateAppReleasesVersion(@, deployed, DOMAIN @)]
               /\ UpdateAppStatus(loc.ver, ApplySuccessStatus,
                                  APP_PROGRESS_COMPLETED)
               /\ active' = [active EXCEPT ![loc.ver] = TRUE]
               /\ alarm' = IF loc.caller = "none" THEN NoAlarm ELSE alarm
               /\ gh' = [gh EXCEPT !.refreshed = TRUE]
               /\ IF loc.caller = "none"
                  THEN Finish("True")
                  ELSE /\ pc' = "upd_result" /\ retval' = retval
                       /\ loc' = [loc EXCEPT !.result = TRUE]
          ELSE \* the update of the records raised part way
               /\ \E upd \in (IF kube_app_get_ok
                              THEN Prefixes(kube_app_get,
                                       DOMAIN relVersion[kube_app_get])
                              ELSE {{}}) :
                     relVersion' = IF kube_app_get_ok
                        THEN [relVersion EXCEPT ![kube_app_get] =
                                 UpdateAppReleasesVersion(@, deployed, upd)]
                        ELSE relVersion
               /\ pc' = "ap_fail"
               /\ UNCHANGED <<status, progress, active, alarm, gh, loc, retval>>
    /\ UNCHANGED <<unitVars, appName, phase, todo, deployed, files, abort_requested,
                   dockerVars, op, abortVars, cnt>>

\* "something went wrong": read of the abort flag
ApplyFail ==
    /\ pc = "ap_fail"
    /\ loc' = [loc EXCEPT !.user = is_app_aborted(appName)]
    /\ pc' = "ap_fail2"
    /\ UNCHANGED <<unitVars, appName, phase, todo, dbVars, deployed, files, alarm,
                   abort_requested, dockerVars, op, retval, abortVars, cnt, gh>>

\* "something went wrong": _abort_operation, deregistration, return False
ApplyFailReturn ==
    /\ pc = "ap_fail2"
    /\ AbortOperation(loc.ver, APP_PROGRESS_ABORTED, loc.user, FALSE)
    /\ abort_requested' = IF ApplyOwnsAbort(loc.caller)
                          THEN DeregisterAppAbort(abort_requested, appName)
                          ELSE abort_requested
    /\ IF loc.caller = "none"
       THEN Finish("False")
       ELSE /\ pc' = "upd_result" /\ retval' = retval
            /\ loc' = [loc EXCEPT !.result = FALSE]
    /\ UNCHANGED <<unitVars, appName, phase, todo, active, relVersion, deployed, files,
                   dockerVars, op, abortVars, cnt, gh>>

(***************************************************************************)
(* perform_app_remove                                                      *)
(***************************************************************************)
\* request: remove of the applied version; the record arrives with status
\* remove-in-progress; the entry of perform_app_remove registers
StartRemove ==
    /\ CanStart
    /\ kube_app_get_ok
    /\ status[kube_app_get] \in {APP_APPLY_SUCCESS, APP_APPLY_FAILURE,
                                 APP_REMOVE_FAILURE}
    /\ status' = [status EXCEPT ![kube_app_get] = APP_REMOVE_IN_PROGRESS]
    /\ abort_requested' = RegisterAppAbort(abort_requested, appName)
    /\ op' = "remove" /\ pc' = "rm_charts" /\ retval' = "none"
    /\ loc' = [NoLoc EXCEPT !.ver = kube_app_get]
    /\ gh' = NoGh
    /\ UNCHANGED <<unitVars, appName, phase, todo, progress, active, relVersion,
                   deployed, files, alarm, dockerVars, abortVars>>

\* chart list (outside any try block), active flag, progress, start of the
\* armada delete request
RemoveBegin ==
    /\ pc = "rm_charts"
    /\ \E chartsOk \in BOOLEAN, dockerOk \in BOOLEAN :
          IF ~chartsOk
          THEN /\ dockerOk
               /\ Finish(OtherException)
               /\ UNCHANGED <<active, status, progress, container, armadaLock>>
          ELSE /\ active' = [active EXCEPT ![loc.ver] = FALSE]
               /\ UpdateAppProgress(loc.ver, ProgressStep)
               /\ container' = StartArmadaService(container, dockerOk)
               /\ armadaLock' = ArmadaLockAcquire(armadaLock, dockerOk)
               /\ pc' = IF dockerOk THEN "rm_requesting" ELSE "rm_fail"
               /\ UNCHANGED <<retval, loc>>
    /\ UNCHANGED <<unitVars, appName, phase, todo, relVersion, deployed, files, alarm,
                   abort_requested, registries_info, op, abortVars, cnt, gh>>

\* the armada delete request returns
RemoveRequestDone ==
    /\ pc = "rm_requesting"
    /\ \E rc \in ExitCodes(container),
          done \in Prefixes(loc.ver, ChartsOf(loc.ver)) :
          /\ rc <=> (done = ChartsOf(loc.ver))
          /\ deployed' = Purge(deployed, done)
          /\ pc' = IF rc THEN "rm_post" ELSE "rm_fail"
    /\ armadaLock' = ArmadaLockRelease(armadaLock, container)
    /\ UNCHANGED <<unitVars, appName, phase, todo, dbVars, files, alarm, abort_requested,
                   container, registries_info, op, loc, retval, abortVars,
                   cnt, gh>>

\* variant of ResetReleases: the release records keep their revisions
ResetNoReleases(rel, zeroed) == rel

\* the release records in zeroed are set back to revision 0
ResetReleases(rel, zeroed) ==
    [r \in DOMAIN rel |-> IF r \in zeroed THEN 0 ELSE rel[r]]

\* kube_app_destroy of the records in gone
DestroyStatus(st, gone) == [v \in Versions |-> IF v \in gone THEN NoRecord ELSE st[v]]
DestroyRel(rel, gone) == [v \in Versions |-> IF v \in gone THEN EmptyRel ELSE rel[v]]
DestroyActive(act, gone) == [v \in Versions |-> IF v \in gone THEN FALSE ELSE act[v]]
DestroyProgress(pr, gone) == [v \in Versions |-> IF v \in gone THEN NoProgress ELSE pr[v]]

\* after a successful delete request: release records back to 0, inactive
\* records destroyed, resources of a system app deleted, status uploaded
RemovePost ==
    /\ pc = "rm_post"
    /\ \E o \in {"ok", "db-error", "resource-error"} :
         /\ (o = "resource-error") => appName \in SystemApps
         /\ IF o = "db-error" \/ ~kube_app_get_ok
            THEN \* a database call raised: nothing in perform_app_remove
                 \* catches it
                 /\ \E zeroed \in (IF kube_app_get_ok
                                   THEN Prefixes(kube_app_get,
                                            DOMAIN relVersion[kube_app_get])
                                   ELSE {{}}) :
                       relVersion' = IF kube_app_get_ok
                          THEN [relVersion EXCEPT ![kube_app_get] =
                                   ResetReleases(@, zeroed)]
                          ELSE relVersion
                 /\ Finish(OtherException)
                 /\ UNCHANGED <<status, progress, active, alarm,
                                abort_requested>>
            ELSE LET gone == kube_app_get_inactive
                     rel1 == [relVersion EXCEPT ![kube_app_get] =
                                 ResetReleases(@, DOMAIN @)]
                     st1 == DestroyStatus(status, gone)
                     pr1 == DestroyProgress(progress, gone)
                 IN  /\ relVersion' = DestroyRel(rel1, gone)
                     /\ active' = DestroyActive(active, gone)
                     /\ abort_requested' =
                           DeregisterAppAbort(abort_requested, appName)
                     /\ IF o = "resource-error"
                        THEN /\ status' = [st1 EXCEPT ![loc.ver] =
                                  AbortStatus(appName, status[loc.ver], FALSE)]
                             /\ progress' = [pr1 EXCEPT ![loc.ver] =
                                  AbortProgress(status[loc.ver],
                                      APP_PROGRESS_ABORTED, FALSE, FALSE, @)]
                             /\ alarm' = AbortAlarm(appName, status[loc.ver],
                                                    FALSE, alarm)
                             /\ Finish("False")
                        ELSE /\ status' = [st1 EXCEPT ![loc.ver] =
                                               APP_UPLOAD_SUCCESS]
                             /\ progress' = [pr1 EXCEPT ![loc.ver] =
                                               APP_PROGRESS_COMPLETED]
                             /\ alarm' = NoAlarm
                             /\ Finish("True")
    /\ UNCHANGED <<unitVars, appName, phase, todo, deployed, files, dockerVars, op,
                   abortVars, cnt, gh>>

\* the delete request failed: read of the abort flag
RemoveFail ==
    /\ pc = "rm_fail"
    /\ loc' = [loc EXCEPT !.user = is_app_aborted(appName)]
    /\ pc' = "rm_fail2"
    /\ UNCHANGED <<unitVars, appName, phase, todo, dbVars, deployed, files, alarm,
                   abort_requested, dockerVars, op, retval, abortVars, cnt, gh>>

\* the delete request failed: _abort_operation, deregistration, return False
RemoveFailReturn ==
    /\ pc = "rm_fail2"
    /\ AbortOperation(loc.ver, APP_PROGRESS_ABORTED, loc.user, FALSE)
    /\ abort_requested' = DeregisterAppAbort(abort_requested, appName)
    /\ Finish("False")
    /\ UNCHANGED <<unitVars, appName, phase, todo, active, relVersion, deployed, files,
                   dockerVars, op, abortVars, cnt, gh>>

(***************************************************************************)
(* perform_app_delete                                                      *)
(***************************************************************************)
\* request: delete of an application that is uploaded or failed to upload.
\* The record is destroyed, the files are removed, the alarm is cleared; an
\* error at any of these steps ends the sequence and is returned as text.
PerformAppDelete ==
    /\ CanStart
    /\ kube_app_get_ok
    /\ status[kube_app_get] \in {APP_UPLOAD_SUCCESS, APP_UPLOAD_FAILURE}
    /\ \E steps \in 0..3 :
         LET gone == IF steps >= 1 THEN {kube_app_get} ELSE {}
         IN  /\ status' = DestroyStatus(status, gone)
             /\ progress' = DestroyProgress(progress, gone)
             /\ active' = DestroyActive(active, gone)
             /\ relVersion' = DestroyRel(relVersion, gone)
             /\ files' = IF steps >= 2
                         THEN [files EXCEPT ![kube_app_get] = FALSE]
                         ELSE files
             /\ alarm' = IF steps = 3 THEN NoAlarm ELSE alarm
             /\ retval' = IF steps = 3 THEN "None" ELSE "message"
    /\ op' = "delete" /\ pc' = "done" /\ loc' = NoLoc
    /\ gh' = NoGh
    /\ UNCHANGED <<unitVars, appName, phase, todo, deployed, abort_requested,
                   dockerVars, abortVars>>

(***************************************************************************)
(* perform_app_update                                                      *)
(***************************************************************************)
\* request: update from the applied version to the other version.  The
\* applied record arrives inactive, the target record with status
\* update-in-progress (created if the version was never uploaded; an
\* existing inactive version can also be reached by rollback); the active
\* flags are as they were (false for a record just created).  The entry
\* of perform_app_update registers and raises the in-progress alarm.
StartUpdate ==
    /\ CanStart
    /\ kube_app_get_ok
    /\ status[kube_app_get] = APP_APPLY_SUCCESS
    /\ LET from == kube_app_get
           to == Other(kube_app_get)
       IN  /\ status' = [status EXCEPT ![from] = APP_INACTIVE_STATE,
                                       ![to] = APP_UPDATE_IN_PROGRESS]
           /\ \E operation \in {"apply", "rollback"} :
                 /\ (operation = "rollback") => Exists(to)
                 /\ loc' = [NoLoc EXCEPT !.ver = to, !.from = from,
                                         !.caller = "update",
                                         !.operation = operation]
    /\ abort_requested' = RegisterAppAbort(abort_requested, appName)
    /\ alarm' = ALARM_UPDATING
    /\ op' = "update" /\ pc' = "up_start" /\ retval' = "none"
    /\ gh' = NoGh
    /\ UNCHANGED <<unitVars, appName, phase, todo, progress, active, relVersion,
                   deployed, files, dockerVars, abortVars>>

\* the upload of the new version returned: status update-in-progress, then
\* perform_app_apply (caller update) or _perform_app_rollback is entered;
\* when the save of the status raises, the try block is left with an
\* exception that is neither an upload nor an apply failure nor an abort
UpdateUploaded ==
    /\ pc = "upd_uploaded"
    /\ \E saved \in BOOLEAN :
          IF saved
          THEN /\ UpdateAppStatus(loc.ver, APP_UPDATE_IN_PROGRESS, NoProgress)
               /\ IF loc.operation = "apply"
                  THEN ApplyEntry("update") /\ pc' = "ap_charts"
                  ELSE UNCHANGED <<abort_requested, alarm>> /\ pc' = "rb_start"
          ELSE /\ UNCHANGED <<status, progress, abort_requested, alarm>>
               /\ pc' = "upd_error"
    /\ UNCHANGED <<unitVars, appName, phase, todo, active, relVersion, deployed, files,
                   dockerVars, op, loc, retval, abortVars, cnt, gh>>

\* variant of ArmadaProcessRequired: recovery never makes an armada request
ArmadaProcessNeverRequired(raised) == FALSE

\* armada_process_required of _perform_app_recover: the default (True) when
\* apply or rollback returned False, False from the except clause
ArmadaProcessRequired(raised) == ~raised

\* apply or rollback returned.  False: recovery with an armada request.
\* True: status update-in-progress with the progress of the cleanup.
UpdateResult ==
    /\ pc = "upd_result"
    /\ IF ~loc.result
       THEN /\ pc' = "rc_start"
            /\ loc' = [NoLoc EXCEPT !.ver = loc.ver, !.from = loc.from,
                                    !.caller = loc.caller,
                                    !.apr = ArmadaProcessRequired(FALSE)]
            /\ UNCHANGED <<status, progress>>
       ELSE /\ UpdateAppStatus(loc.ver, APP_UPDATE_IN_PROGRESS,
                               ProgressUpdateCleanup)
            /\ pc' = "upd_cleanup"
            /\ loc' = [NoLoc EXCEPT !.ver = loc.ver, !.from = loc.from,
                                    !.caller = loc.caller]
    /\ UNCHANGED <<unitVars, appName, phase, todo, active, relVersion, deployed, files,
                   alarm, abort_requested, dockerVars, op, retval, abortVars,
                   cnt, gh>>

\* cleanup of the old version (releases no longer in the new version,
\* files, patch dependencies); an error during the cleanup is logged; in
\* both cases status apply-success, deregistration, alarm cleared, True.
UpdateCleanup ==
    /\ pc = "upd_cleanup"
    /\ \E o \in {"ok", "charts-error", "helm-error", "cleanup-error",
                  "patch-error"} :
          LET stale == {r \in ChartsOf(loc.from) \ ChartsOf(loc.ver) :
                            deployed[r] # 0}
          IN  /\ \E deleted \in SUBSET stale :
                   /\ (o \in {"ok", "cleanup-error", "patch-error"})
                         => deleted = stale
                   /\ (o = "charts-error") => deleted = {}
                   /\ (o = "helm-error") => deleted # stale \/ stale = {}
                   /\ deployed' = Purge(deployed, deleted)
              /\ files' = IF o \in {"ok", "patch-error"}
                          THEN [files EXCEPT ![loc.from] = FALSE]
                          ELSE files
              /\ UpdateAppStatus(loc.ver, APP_APPLY_SUCCESS,
                    IF o = "ok" THEN ProgressUpdateCompleted
                    ELSE ProgressUpdateCleanupFailed)
    /\ abort_requested' = DeregisterAppAbort(abort_requested, appName)
    /\ alarm' = NoAlarm
    /\ Finish("True")
    /\ UNCHANGED <<unitVars, appName, phase, todo, active, relVersion, dockerVars, op,
                   abortVars, cnt, gh>>

\* except Exception: of perform_app_update, entered with an exception that
\* is none of the three above and was raised before apply or rollback was
\* called: status apply-success with the progress of a failed cleanup,
\* deregistration, alarm cleared, True
UpdateExceptOther ==
    /\ pc = "upd_error"
    /\ UpdateAppStatus(loc.ver, APP_APPLY_SUCCESS, ProgressUpdateCleanupFailed)
    /\ abort_requested' = DeregisterAppAbort(abort_requested, appName)
    /\ alarm' = NoAlarm
    /\ Finish("True")
    /\ UNCHANGED <<unitVars, appName, phase, todo, active, relVersion,
                   deployed, files, dockerVars, op, abortVars, cnt, gh>>

\* except (KubeAppUploadFailure, KubeAppApplyFailure, KubeAppAbort):
\* recovery without an armada request
UpdateExcept ==
    /\ pc = "upd_except"
    /\ pc' = "rc_start"
    /\ loc' = [NoLoc EXCEPT !.ver = loc.ver, !.from = loc.from,
                            !.caller = loc.caller,
                            !.apr = ArmadaProcessRequired(TRUE)]
    /\ UNCHANGED <<unitVars, appName, phase, todo, dbVars, deployed, files, alarm,
                   abort_requested, dockerVars, op, retval, abortVars, cnt, gh>>

(***************************************************************************)
(* _perform_app_rollback                                                   *)
(***************************************************************************)
\* the releases _perform_app_rollback queues: those of the target with a
\* revision that the old version's records do not have or have differently
\* variant: every release of the target with a revision is queued
RollbackQueueAll(toRel, fromRel) == {r \in DOMAIN toRel : toRel[r] # 0}

RollbackQueue(toRel, fromRel) ==
    {r \in DOMAIN toRel :
        /\ toRel[r] # 0
        /\ (r \notin DOMAIN fromRel \/ toRel[r] # fromRel[r])}

\* checkpoint, read of the release records of both versions, progress
RollbackBegin ==
    /\ pc = "rb_start"
    /\ IF is_app_aborted(appName)
       THEN /\ pc' = "upd_except"
            /\ loc' = [loc EXCEPT !.exc = KubeAppAbort]
            /\ UNCHANGED <<status, progress>>
       ELSE \E dbOk \in BOOLEAN :
              IF dbOk /\ kube_app_get_ok
              THEN /\ UpdateAppProgress(loc.ver, ProgressStep)
                   /\ pc' = "rb_queue"
                   /\ loc' = loc
              ELSE /\ pc' = "upd_result"
                   /\ loc' = [loc EXCEPT !.result = FALSE]
                   /\ UNCHANGED <<status, progress>>
    /\ UNCHANGED <<unitVars, appName, phase, todo, active, relVersion, deployed, files,
                   alarm, abort_requested, dockerVars, op, retval, abortVars,
                   cnt, gh>>

\* checkpoint, queue of the releases to roll back, deletion of their jobs
\* (jobsDeleted in the history: the releases whose jobs were deleted)
RollbackQueueReleases ==
    /\ pc = "rb_queue"
    /\ IF is_app_aborted(appName)
       THEN /\ pc' = "upd_except"
            /\ loc' = [loc EXCEPT !.exc = KubeAppAbort]
            /\ gh' = gh
       ELSE LET queue == RollbackQueue(relVersion[loc.ver],
                                       relVersion[loc.from])
            IN \E kubeOk \in BOOLEAN :
                 IF kubeOk /\ queue \subseteq ChartsOf(loc.ver)
                 THEN /\ pc' = "rb_request"
                      /\ loc' = [loc EXCEPT !.releases = queue]
                      /\ gh' = [gh EXCEPT !.jobsDeleted = queue]
                 ELSE /\ pc' = "upd_result"
                      /\ loc' = [loc EXCEPT !.result = FALSE]
                      /\ \E done \in Prefixes(loc.ver, queue) :
                            gh' = [gh EXCEPT !.jobsDeleted = done]
    /\ UNCHANGED <<unitVars, appName, phase, todo, dbVars, deployed, files,
                   alarm, abort_requested, dockerVars, op, retval, abortVars,
                   cnt>>

\* checkpoint, start of the armada rollback request
RollbackRequest ==
    /\ pc = "rb_request"
    /\ IF is_app_aborted(appName)
       THEN /\ pc' = "upd_except"
            /\ loc' = [loc EXCEPT !.exc = KubeAppAbort]
            /\ UNCHANGED <<container, armadaLock, gh>>
       ELSE \E dockerOk \in BOOLEAN :
              /\ container' = StartArmadaService(container, dockerOk)
              /\ armadaLock' = ArmadaLockAcquire(armadaLock, dockerOk)
              /\ pc' = IF dockerOk THEN "rb_requesting" ELSE "upd_result"
              /\ loc' = [loc EXCEPT !.result = FALSE]
              /\ gh' = [gh EXCEPT !.rollbackReq = dockerOk]
    /\ UNCHANGED <<unitVars, appName, phase, todo, dbVars, deployed, files, alarm,
                   abort_requested, registries_info, op, retval,
                   abortVars, cnt>>

\* the armada rollback request returns
RollbackRequestDone ==
    /\ pc = "rb_requesting"
    /\ \E rc \in ExitCodes(container),
          done \in Prefixes(loc.ver, loc.releases) :
          /\ rc <=> (done = loc.releases)
          /\ deployed' = Bump(deployed, done)
          /\ IF rc
             THEN UpdateAppStatus(loc.ver, APP_APPLY_SUCCESS,
                                  APP_PROGRESS_COMPLETED)
             ELSE UNCHANGED <<status, progress>>
          /\ loc' = [loc EXCEPT !.result = rc]
          /\ gh' = [gh EXCEPT !.rollbackOk = rc]
    /\ pc' = "upd_result"
    /\ armadaLock' = ArmadaLockRelease(armadaLock, container)
    /\ UNCHANGED <<unitVars, appName, phase, todo, active, relVersion, files, alarm,
                   abort_requested, container, registries_info, op, retval,
                   abortVars, cnt>>

(***************************************************************************)
(* _perform_app_recover                                                    *)
(***************************************************************************)
\* _perform_app_recover returned None: the finally clause of
\* perform_app_update deregisters and the update returns None
RecoverReturn ==
    /\ abort_requested' = DeregisterAppAbort(abort_requested, appName)
    /\ Finish("None")

\* status recover-in-progress for the old version, inactive for the new;
\* cleanup of the new version's files, patch report, destruction of its
\* record, re-upload of the old charts; then, if an armada request is
\* required, chart list and overrides of the old version and the request
RecoverBegin ==
    /\ pc = "rc_start"
    /\ LET old == loc.from
           new == loc.ver
       IN \E o \in {"ok", "cleanup-error", "patch-error", "destroy-error",
                    "charts-error", "overrides-error", "docker-error"} :
            /\ (o \in {"overrides-error", "docker-error"}) => loc.apr
            /\ (o = "overrides-error") => appName \in SystemApps
            /\ files' = IF o = "cleanup-error" THEN files
                        ELSE [files EXCEPT ![new] = FALSE]
            /\ LET gone == IF o \in {"cleanup-error", "patch-error",
                                     "destroy-error"}
                           THEN {} ELSE {new}
                   st1 == [DestroyStatus([status EXCEPT
                               ![new] = APP_INACTIVE_STATE], gone)
                             EXCEPT ![old] = APP_RECOVER_IN_PROGRESS]
                   pr1 == [DestroyProgress(progress, gone)
                             EXCEPT ![old] = ProgressRecoverInProgress]
               IN  /\ relVersion' = DestroyRel(relVersion, gone)
                   /\ active' = DestroyActive(active, gone)
                   /\ CASE o \in {"cleanup-error", "patch-error",
                                  "destroy-error", "charts-error",
                                  "overrides-error"} ->
                             \* the except clause of _perform_app_recover
                             /\ status' = [st1 EXCEPT ![old] = APP_APPLY_SUCCESS]
                             /\ progress' = [pr1 EXCEPT
                                   ![old] = ProgressRecoverCleanupFailed]
                             /\ alarm' = alarm
                             /\ UNCHANGED <<container, armadaLock>>
                             /\ RecoverReturn
                        [] o = "docker-error" ->
                             /\ status' = [st1 EXCEPT ![old] = APP_APPLY_FAILURE]
                             /\ progress' = [pr1 EXCEPT
                                   ![old] = ProgressRecoverAborted]
                             /\ alarm' = alarm
                             /\ UNCHANGED <<container, armadaLock>>
                             /\ RecoverReturn
                        [] o = "ok" /\ ~loc.apr ->
                             /\ status' = [st1 EXCEPT ![old] = APP_APPLY_SUCCESS]
                             /\ progress' = [pr1 EXCEPT
                                   ![old] = ProgressRecoverCompleted]
                             /\ alarm' = NoAlarm
                             /\ UNCHANGED <<container, armadaLock>>
                             /\ RecoverReturn
                        [] o = "ok" /\ loc.apr ->
                             /\ status' = st1
                             /\ progress' = [pr1 EXCEPT ![old] = ProgressStep]
                             /\ alarm' = alarm
                             /\ container' = StartArmadaService(container, TRUE)
                             /\ armadaLock' = ArmadaLockAcquire(armadaLock, TRUE)
                             /\ pc' = "rc_requesting"
                             /\ UNCHANGED <<abort_requested, retval, loc>>
    /\ UNCHANGED <<unitVars, appName, phase, todo, deployed,
                   registries_info, op, abortVars, cnt, gh>>

\* the armada apply request for the old version returns; on success the
\* releases of the new version that the old one does not have are deleted
RecoverRequestDone ==
    /\ pc = "rc_requesting"
    /\ LET old == loc.from
           new == loc.ver
       IN \E rc \in ExitCodes(container),
             done \in Prefixes(old, ChartsOf(old)), helmOk \in BOOLEAN :
            /\ rc <=> (done = ChartsOf(old))
            /\ ~rc => helmOk
            /\ LET dep1 == Bump(deployed, done)
                   stale == {r \in ChartsOf(new) \ ChartsOf(old) : dep1[r] # 0}
               IN  \E deleted \in SUBSET stale :
                     /\ (rc /\ helmOk) => deleted = stale
                     /\ ~rc => deleted = {}
                     /\ deployed' = Purge(dep1, deleted)
            /\ IF rc /\ helmOk
               THEN /\ UpdateAppStatus(old, APP_APPLY_SUCCESS,
                                       ProgressRecoverCompleted)
                    /\ alarm' = NoAlarm
               ELSE IF rc
               THEN /\ UpdateAppStatus(old, APP_APPLY_SUCCESS,
                                       ProgressRecoverCleanupFailed)
                    /\ alarm' = alarm
               ELSE /\ UpdateAppStatus(old, APP_APPLY_FAILURE,
                                       ProgressRecoverAborted)
                    /\ alarm' = alarm
    /\ RecoverReturn
    /\ armadaLock' = ArmadaLockRelease(armadaLock, container)
    /\ UNCHANGED <<unitVars, appName, phase, todo, active, relVersion, files,
                   container, registries_info, op, abortVars, cnt, gh>>

(***************************************************************************)
(* Progress monitor of an armada request (_check_progress)                 *)
(***************************************************************************)
\* the record the monitored request is about
MonitoredVersion == IF pc = "rc_requesting" THEN loc.from ELSE loc.ver

\* the monitor found a new chart in the log of the running request and
\* persists the progress, with the status the application object holds
MonitorProgress ==
    /\ pc \in RequestingPcs
    /\ progress[MonitoredVersion] # ProgressMonitor
    /\ UpdateAppProgress(MonitoredVersion, ProgressMonitor)
    /\ UNCHANGED <<unitVars, appName, phase, todo, active, relVersion, deployed, files,
                   alarm, abort_requested, dockerVars, opVars, abortVars,
                   cnt, gh>>

(***************************************************************************)
(* The system                                                              *)
(***************************************************************************)
Next ==
    \/ Restart
    \/ ClearStuckApplication
    \/ ClearArmadaLocks
    \/ AbortRead
    \/ AbortSetFlag
    \/ AbortStop
    \/ Return
    \/ StartUpload
    \/ UploadBegin
    \/ UploadExtract
    \/ UploadValidate
    \/ UploadCharts
    \/ UploadExcept
    \/ StartApply
    \/ ApplyCharts
    \/ ApplyOverrides
    \/ ApplyDownloadBegin
    \/ ApplyDownloadBatch
    \/ ApplyDownloadWait
    \/ ApplyExcept
    \/ ApplyExceptRaise
    \/ ApplyPending
    \/ ApplyRequest
    \/ ApplyRequestDone
    \/ ApplyPost
    \/ ApplyFail
    \/ ApplyFailReturn
    \/ StartRemove
    \/ RemoveBegin
    \/ RemoveRequestDone
    \/ RemovePost
    \/ RemoveFail
    \/ RemoveFailReturn
    \/ PerformAppDelete
    \/ StartUpdate
    \/ UpdateUploaded
    \/ UpdateResult
    \/ UpdateCleanup
    \/ UpdateExcept
    \/ UpdateExceptOther
    \/ RollbackBegin
    \/ RollbackQueueReleases
    \/ RollbackRequest
    \/ RollbackRequestDone
    \/ RecoverBegin
    \/ RecoverRequestDone
    \/ MonitorProgress

Spec == Init /\ [][Next]_vars

(***************************************************************************)
(* The manifest parser (_get_list_of_charts), on its own                   *)
(***************************************************************************)
\* longest chart list of a group and longest group list of a manifest
MaxListLen == 2
\* how often a manifest is parsed in a row
MaxParses == 2

\* names are texts, modelled as sequences of tokens
ChartNames == {"c1", "c2"}
GroupNames == {"g1", "g2"}
DeclaredRelease(c) == IF c = "c1" THEN <<"ra">> ELSE <<"rb">>
ReleasePrefixes == {<<>>, <<"osh">>}

SCHEMA_MANIFEST == "armada/Manifest/v1"
SCHEMA_CHART_GROUP == "armada/ChartGroup/v1"
SCHEMA_CHART == "armada/Chart/v1"
ChartKeys == {"chart_name", "namespace", "source", "release"}

\* sequences over S of length at most n
SeqUpTo(S, n) == UNION {[1..k -> S] : k \in 0..n}
\* the orders a dictionary with keys in S can be iterated in
Orders(S) == {o \in [1..Cardinality(S) -> S] :
                 \A i, j \in 1..Cardinality(S) : o[i] = o[j] => i = j}

\* a document of the manifest file: keys are the keys of doc['data'] that
\* are present
Doc(schema, name, keys, prefix, groups, group, sequenced, release) ==
    [schema |-> schema, name |-> name, keys |-> keys,
     release_prefix |-> prefix, chart_groups |-> groups,
     chart_group |-> group, sequenced |-> sequenced, release |-> release]

\* the manifest document: none, or one with or without its keys
ManifestDocs ==
    {<<>>} \cup
    {<<Doc(SCHEMA_MANIFEST, "manifest", keys, p, gs, <<>>, FALSE, <<>>)>> :
        keys \in {{"chart_groups"}, {"release_prefix", "chart_groups"}},
        p \in ReleasePrefixes, gs \in SeqUpTo(GroupNames, MaxListLen)}
    \cup
    {<<Doc(SCHEMA_MANIFEST, "manifest", {"release_prefix"}, p, <<>>, <<>>,
           FALSE, <<>>)>> : p \in ReleasePrefixes}

\* the document of chart group g: none, or one with a chart list
ChartGroupDocs(g) ==
    {<<>>} \cup
    {<<Doc(SCHEMA_CHART_GROUP, g, keys, <<>>, <<>>, cs, TRUE, <<>>)>> :
        keys \in {{"chart_group"}, {"chart_group", "sequenced"}},
        cs \in SeqUpTo(ChartNames, MaxListLen)}

\* the document of chart c: none, well formed, or without its release key
ChartDocs(c) ==
    {<<>>} \cup
    {<<Doc(SCHEMA_CHART, c, keys, <<>>, <<>>, <<>>, FALSE,
           DeclaredRelease(c))>> :
        keys \in {ChartKeys, ChartKeys \ {"release"}}}

Manifests ==
    {m \o g1 \o g2 \o c1 \o c2 :
        m \in ManifestDocs, g1 \in ChartGroupDocs("g1"),
        g2 \in ChartGroupDocs("g2"), c1 \in ChartDocs("c1"),
        c2 \in ChartDocs("c2")}

EmptyDict == [k \in {} |-> 0]
Update(d, k, v) == [x \in (DOMAIN d) \cup {k} |-> IF x = k THEN v ELSE d[x]]
Del(d, k) == [x \in (DOMAIN d) \ {k} |-> d[x]]
\* the keys of d in the order the interpreter iterates them
Iterate(d, order) == SelectSeq(order, LAMBDA k : k \in DOMAIN d)

\* the locals of _get_list_of_charts at its start
ParserLocals == [charts |-> <<>>, release_prefix |-> <<>>,
                 chart_group |-> EmptyDict, chart_groups |-> <<>>,
                 armada_charts |-> EmptyDict, raised |-> FALSE]

\* one document of the file: a key that is missing ends the handling of
\* the document at the statement that reads it
ReadDoc(doc, st) ==
    CASE doc.schema = SCHEMA_MANIFEST ->
           IF "release_prefix" \notin doc.keys THEN st
           ELSE IF "chart_groups" \notin doc.keys
           THEN [st EXCEPT !.release_prefix = doc.release_prefix]
           ELSE [st EXCEPT !.release_prefix = doc.release_prefix,
                           !.chart_groups = doc.chart_groups]
      [] doc.schema = SCHEMA_CHART_GROUP ->
           IF "chart_group" \notin doc.keys THEN st
           ELSE [st EXCEPT !.chart_group = Update(@, doc.name,
                    [chart_group |-> doc.chart_group,
                     sequenced |-> IF "sequenced" \in doc.keys
                                   THEN doc.sequenced ELSE FALSE])]
      [] doc.schema = SCHEMA_CHART ->
           IF ~(ChartKeys \subseteq doc.keys) THEN st
           ELSE [st EXCEPT !.armada_charts = Update(@, doc.name,
                    [release |-> doc.release])]
      [] OTHER -> st

RECURSIVE ReadDocs(_, _)
ReadDocs(docs, st) ==
    IF docs = <<>> THEN st
    ELSE ReadDocs(Tail(docs), ReadDoc(Head(docs), st))

\* the namedtuple Chart
Chart(metadata_name, release, sequenced) ==
    [metadata_name |-> metadata_name, release |-> release,
     sequenced |-> sequenced]

\* the charts of one group are pushed and taken out of armada_charts; a
\* chart that is not (or no longer) in armada_charts raises KeyError
RECURSIVE PushGroupCharts(_, _, _)
PushGroupCharts(list, sequenced, st) ==
    IF st.raised \/ list = <<>> THEN st
    ELSE IF Head(list) \notin DOMAIN st.armada_charts
    THEN [st EXCEPT !.raised = TRUE]
    ELSE PushGroupCharts(Tail(list), sequenced,
            [st EXCEPT
                !.charts = Append(@, Chart(Head(list),
                              st.armada_charts[Head(list)].release,
                              sequenced)),
                !.armada_charts = Del(@, Head(list))])

\* the groups of the install list, each taken out of chart_group; a group
\* that is not (or no longer) in chart_group raises KeyError
RECURSIVE PushListedGroups(_, _)
PushListedGroups(groups, st) ==
    IF st.raised \/ groups = <<>> THEN st
    ELSE IF Head(groups) \notin DOMAIN st.chart_group
    THEN [st EXCEPT !.raised = TRUE]
    ELSE LET g == st.chart_group[Head(groups)]
             pushed == PushGroupCharts(g.chart_group, g.sequenced, st)
         IN PushListedGroups(Tail(groups),
               IF pushed.raised THEN pushed
               ELSE [pushed EXCEPT !.chart_group = Del(@, Head(groups))])

\* the groups that are left, in dictionary order
RECURSIVE PushUnlistedGroups(_, _)
PushUnlistedGroups(groups, st) ==
    IF st.raised \/ groups = <<>> THEN st
    ELSE LET g == st.chart_group[Head(groups)]
         IN PushUnlistedGroups(Tail(groups),
               PushGroupCharts(g.chart_group, g.sequenced, st))

\* the charts that are left, in dictionary order, not sequenced
RECURSIVE PushOrphanCharts(_, _)
PushOrphanCharts(names, st) ==
    IF st.raised \/ names = <<>> THEN st
    ELSE PushOrphanCharts(Tail(names),
            [st EXCEPT !.charts = Append(@, Chart(Head(names),
                          st.armada_charts[Head(names)].release, FALSE))])

\* release_prefix + "-" + release
PrefixedRelease(release_prefix, release) ==
    release_prefix \o <<"-">> \o release

\* variant: the release prefix is never applied
KeepReleases(release_prefix, list) == list

\* the release prefix, when there is one, goes in front of every release
ApplyReleasePrefix(release_prefix, list) ==
    IF release_prefix # <<>>
    THEN [i \in DOMAIN list |->
             [list[i] EXCEPT
                 !.release = PrefixedRelease(release_prefix, @)]]
    ELSE list

\* _get_list_of_charts: the list of charts, or the KeyError that leaves it
get_list_of_charts(docs, order) ==
    LET read == ReadDocs(docs, ParserLocals)
        listed == PushListedGroups(read.chart_groups, read)
        unlisted == PushUnlistedGroups(
                       Iterate(listed.chart_group, order.groups), listed)
        orphans == PushOrphanCharts(
                       Iterate(unlisted.armada_charts, order.charts), unlisted)
    IN IF orphans.raised
       THEN [raised |-> TRUE, list |-> <<>>]
       ELSE [raised |-> FALSE,
             list |-> ApplyReleasePrefix(read.release_prefix, orphans.charts)]

\* a manifest file and an interpreter, nothing parsed yet
InitCharts ==
    /\ InitOperator /\ appName = CUSTOM_APP /\ ~Exists("v1")
    /\ manifest_file \in Manifests
    /\ dict_order \in [groups : Orders(GroupNames), charts : Orders(ChartNames)]
    /\ charts = NotParsed
    /\ NoMonitor
    /\ NoThreads

\* a caller reads the chart list of the manifest file
GetListOfCharts ==
    /\ charts.parses < MaxParses
    /\ LET got == get_list_of_charts(manifest_file, dict_order)
       IN charts' = [raised |-> got.raised, list |-> got.list,
                     parses |-> charts.parses + 1]
    /\ UNCHANGED <<operatorVars, manifest_file, dict_order, monitorVars,
                   threadVars, requestVars>>

NextCharts == GetListOfCharts

SpecCharts == InitCharts /\ [][NextCharts]_vars

(***************************************************************************)
(* Properties                                                              *)
(***************************************************************************)
Failures == {KubeAppUploadFailure, KubeAppApplyFailure, OtherException}

\* C1: whenever no apply, update or remove is in flight (the operation
\* thread is idle, or the operation has returned or raised), the Abort
\* Registry holds no entry for the application.
C1_RegistryEmptyAtRest ==
    (op = "none" \/ pc = "done") => appName \notin DOMAIN abort_requested

AbortStep(a) == abortPc = a /\ abortPc' # a /\ cnt'.restarts = cnt.restarts
\* an abort request is taken up (perform_app_abort reads the status)
AbortTaken ==
    /\ abortPc = "idle"
    /\ cnt'.aborts = cnt.aborts + 1
    /\ cnt'.restarts = cnt.restarts

\* C3 (as the spec states it): perform_app_abort on a record in any of the
\* five in-progress statuses goes on to set the abort flag.
C3_AbortOnAnyInProgress ==
    [][(AbortTaken /\ kube_app_get_ok /\ status[kube_app_get] \in InProgress)
          => abortPc' = "set"]_vars

\* C3 (amended): perform_app_abort goes on to set the flag exactly when the
\* persisted status is apply-, update- or remove-in-progress; it then sets
\* the flag to true, and its stop of the container and its clearing of the
\* lock are best effort: the container is left as it is or, if it was
\* running, stopped; the lock is left as it is or cleared.
C3_AbortActs ==
    [][/\ AbortTaken =>
            (abortPc' = "set" <=>
                (/\ kube_app_get_ok
                 /\ status[kube_app_get] \in {APP_APPLY_IN_PROGRESS,
                                              APP_UPDATE_IN_PROGRESS,
                                              APP_REMOVE_IN_PROGRESS}))
       /\ AbortStep("set") =>
            (/\ appName \in DOMAIN abort_requested'
             /\ abort_requested'[appName]
             /\ abortPc' = "stop")
       /\ AbortStep("stop") =>
            (/\ container' = container
                  \/ (container = "running" /\ container' = "stopped")
             /\ armadaLock' => armadaLock
             /\ abort_requested' = abort_requested)]_vars

\* C3 witness: an abort request has acted on an operation in flight: the
\* flag is set, the container that ran the request is stopped
C3_Witness ==
    /\ cnt.aborts >= 1 /\ cnt.restarts = 0
    /\ abortPc = "idle"
    /\ InFlight
    /\ pc \in RequestingPcs
    /\ is_app_aborted(appName)
    /\ container = "stopped"

\* C4: a directly invoked apply, or a remove, during which the abort flag
\* was set and which ends in failure has persisted the aborted-by-user
\* progress.
C4_UserAbortSurfaced ==
    (/\ op \in {"apply", "remove"}
     /\ pc = "done"
     /\ gh.abortSet
     /\ retval \in {"False", KubeAppApplyFailure})
        => progress[loc.ver] = APP_PROGRESS_ABORTED_BY_USER

\* C5: a step of _clear_stuck_applications takes upload-in-progress to
\* upload-failure, remove-in-progress to remove-failure, and apply-,
\* update- or recover-in-progress to upload-success with no alarm for a
\* platform-managed application and to apply-failure with the apply-failed
\* alarm for any other; when the startup recovery ends no record is in an
\* in-progress status.
C5_StartupRecovery ==
    [][/\ (phase = "startup" /\ todo' # todo) =>
            \A v \in todo \ todo' :
               /\ status'[v] \notin InProgress
               /\ (status[v] = APP_UPLOAD_IN_PROGRESS)
                     => status'[v] = APP_UPLOAD_FAILURE
               /\ (status[v] = APP_REMOVE_IN_PROGRESS)
                     => status'[v] = APP_REMOVE_FAILURE
               /\ (status[v] \in {APP_APPLY_IN_PROGRESS,
                                  APP_UPDATE_IN_PROGRESS,
                                  APP_RECOVER_IN_PROGRESS})
                     => IF appName = HELM_APP_PLATFORM
                        THEN status'[v] = APP_UPLOAD_SUCCESS /\ alarm' = NoAlarm
                        ELSE /\ status'[v] = APP_APPLY_FAILURE
                             /\ alarm' = ALARM_APPLY_FAILED
       /\ (phase = "startup" /\ phase' = "ready") =>
            \A v \in Versions : status'[v] \notin InProgress]_vars

\* C5 witness: the startup recovery has run on a platform-managed
\* application that was stuck and has reset it to upload-success
C5_Witness ==
    /\ phase = "ready"
    /\ cnt.restarts >= 1
    /\ appName = HELM_APP_PLATFORM
    /\ \E v \in Versions :
          status[v] = APP_UPLOAD_SUCCESS /\ progress[v] = ProgressReset

\* C6: when an operation has returned or raised, no record is left in an
\* in-progress status.
C6_TerminalStatus ==
    (pc = "done") => \A v \in Versions : status[v] \notin InProgress

\* C7: perform_app_upload has either returned the application with status
\* upload-success, or raised KubeAppUploadFailure with status upload-failure,
\* the upload-failed alarm and the failing reason as progress.
C7_UploadOutcome ==
    (op = "upload" /\ pc = "done") =>
        \/ retval = "app" /\ status[loc.ver] = APP_UPLOAD_SUCCESS
        \/ /\ retval = KubeAppUploadFailure
           /\ status[loc.ver] = APP_UPLOAD_FAILURE
           /\ alarm = ALARM_UPLOAD_FAILED
           /\ progress[loc.ver] = ProgressReason

\* C8: an operation that has raised an error to its caller has persisted a
\* failure status for the record it was about.
C8_FailurePersistedBeforeRaise ==
    (pc = "done" /\ retval \in Failures) =>
        status[loc.ver] \in {APP_UPLOAD_FAILURE, APP_APPLY_FAILURE,
                             APP_REMOVE_FAILURE}

\* perform_app_apply has returned True: to its RPC caller, or to
\* perform_app_update
ApplyReturnedTrue ==
    \/ op = "apply" /\ pc = "done" /\ retval = "True"
    \/ /\ op = "update" /\ pc = "upd_result"
       /\ loc.operation = "apply" /\ loc.result

\* C9: when perform_app_apply has returned True, an apply request was issued
\* to armada and succeeded, the release records were refreshed after it
\* (each record of a deployed release holds the deployed revision), the
\* status is apply-success and the active flag is true.
C9_ApplyTrue ==
    ApplyReturnedTrue =>
        /\ gh.applyReqs >= 1
        /\ gh.applyOk
        /\ gh.refreshed
        /\ \A r \in DOMAIN relVersion[loc.ver] :
              deployed[r] # 0 => relVersion[loc.ver][r] = deployed[r]
        /\ status[loc.ver] = APP_APPLY_SUCCESS
        /\ active[loc.ver]

\* C9 witness: an apply nested in an update has returned True after its
\* request moved a release to a later revision
C9_Witness ==
    /\ ApplyReturnedTrue
    /\ op = "update"
    /\ \E r \in DOMAIN relVersion[loc.ver] : relVersion[loc.ver][r] >= 2

\* C10 (as the spec states it): an apply invoked right after an apply that
\* succeeded issues no apply request to armada.
C10_SecondApplyNoRequest ==
    (op = "apply" /\ gh.prevApplyOk) => gh.applyReqs = 0

\* C10 (amended): an apply invoked right after an apply that succeeded runs
\* again: when it returns True it has issued exactly one more apply request
\* to armada, and the status is apply-success.
C10_SecondApplyReapplies ==
    (op = "apply" /\ gh.prevApplyOk /\ pc = "done" /\ retval = "True") =>
        /\ gh.applyReqs = 1
        /\ gh.applyOk
        /\ status[loc.ver] = APP_APPLY_SUCCESS

\* C10 witness: the second apply has returned True and the releases are at
\* a later revision than the first apply left them
C10_Witness ==
    /\ op = "apply" /\ gh.prevApplyOk /\ pc = "done" /\ retval = "True"
    /\ \A r \in ChartsOf(loc.ver) : deployed[r] >= 2

\* a step of the operation thread within the same run of the process
OpStep == cnt'.restarts = cnt.restarts /\ (pc' # pc \/ loc' # loc)

\* C11: when the generation of the overrides leaves no override file, the
\* apply goes from there to its failure path without a download of images
\* and without a request to armada, and it ends with status apply-failure
\* and False (returned to the RPC caller, or to perform_app_update).
C11_NoOverridesFails ==
    [][/\ (pc = "ap_overrides" /\ ~loc'.ready /\ OpStep)
             => (pc' = "ap_fail" /\ gh'.applyReqs = 0)
       /\ (~loc.ready /\ pc \in {"ap_fail", "ap_fail2"} /\ OpStep) =>
             /\ pc' \in {"ap_fail", "ap_fail2", "done", "upd_result"}
             /\ gh'.applyReqs = 0
             /\ registries_info' = registries_info
             /\ deployed' = deployed
             /\ (pc = "ap_fail2") =>
                   /\ status'[loc.ver] = APP_APPLY_FAILURE
                   /\ IF loc.caller = "none"
                      THEN pc' = "done" /\ retval' = "False"
                      ELSE pc' = "upd_result" /\ ~loc'.result]_vars

\* C11 witness: the apply nested in an update found no override file and
\* has returned False with the record in apply-failure
C11_Witness ==
    /\ op = "update" /\ pc = "upd_result"
    /\ ~loc.ready /\ ~loc.result
    /\ gh.applyReqs = 0
    /\ status[loc.ver] = APP_APPLY_FAILURE

\* C12: a batch that fails on the last of the MAX_DOWNLOAD_ATTEMPTS attempts
\* raises KubeAppApplyFailure out of _download_images; the apply then makes
\* no request to armada and ends with status apply-failure, raising
\* KubeAppApplyFailure to its caller.
C12_DownloadFailure ==
    [][/\ (pc = "ap_download" /\ loc.idx = 0 /\ OpStep) =>
             \/ pc' = ApplyTry2Pc(TRUE)
             \/ /\ pc' = "ap_except" /\ loc'.exc = KubeAppApplyFailure
                /\ gh'.exhausted
       /\ (pc = "ap_download_wait" /\ OpStep)
             => (loc.idx > 0 /\ pc' = "ap_download"
                 /\ loc'.idx = loc.idx - 1)
       /\ (pc \in {"ap_except", "ap_except2"} /\ gh.exhausted /\ OpStep) =>
             /\ gh'.applyReqs = 0
             /\ pc' \in {"ap_except2", "done", "upd_except"}
             /\ (pc = "ap_except2") =>
                   /\ status'[loc.ver] = APP_APPLY_FAILURE
                   /\ IF loc.caller = "none"
                      THEN pc' = "done" /\ retval' = KubeAppApplyFailure
                      ELSE pc' = "upd_except"
                           /\ loc'.exc = KubeAppApplyFailure]_vars

\* C12 witness: a directly invoked apply whose last download attempt failed
\* has raised KubeAppApplyFailure with no request made
C12_Witness ==
    /\ op = "apply" /\ pc = "done" /\ retval = KubeAppApplyFailure
    /\ gh.exhausted
    /\ gh.applyReqs = 0
    /\ status[loc.ver] = APP_APPLY_FAILURE

\* C13: when the apply request of an update was issued and failed, recovery
\* is entered with the armada request required; unless one of its earlier
\* steps fails it issues the apply request for the old version; and when
\* that request has deployed every chart of the old version, the old
\* version ends in apply-success and the record and the files of the new
\* version no longer exist.
C13_RecoverAfterFailedRequest ==
    [][/\ (/\ op = "update" /\ pc = "upd_result"
           /\ gh.applyReqs >= 1 /\ ~gh.applyOk /\ OpStep)
             => (pc' = "rc_start" /\ loc'.apr)
       /\ (pc = "rc_start" /\ loc.apr /\ OpStep) =>
             \/ pc' = "rc_requesting"
             \/ /\ pc' = "done"
                /\ progress'[loc.from] \in {ProgressRecoverCleanupFailed,
                                            ProgressRecoverAborted}
       /\ (/\ pc = "rc_requesting" /\ pc' = "done"
           /\ \A r \in ChartsOf(loc.from) : deployed'[r] = deployed[r] + 1)
             => /\ status'[loc.from] = APP_APPLY_SUCCESS
                /\ status'[loc.ver] = NoRecord
                /\ ~files'[loc.ver]]_vars

\* C13 witness: the apply request of the update failed and the recovery,
\* with its own request, has brought the old version back to apply-success
C13_Witness ==
    /\ op = "update" /\ pc = "done" /\ retval = "None"
    /\ gh.applyReqs >= 1 /\ ~gh.applyOk
    /\ status[loc.from] = APP_APPLY_SUCCESS
    /\ progress[loc.from] = ProgressRecoverCompleted
    /\ ~Exists(loc.ver) /\ ~files[loc.ver]

\* C14: when recovery begins after an update in which no request was sent
\* to armada (neither an apply nor a rollback request), it begins with no
\* armada request required.
C14_RecoverWithoutRequest ==
    (/\ op = "update" /\ pc = "rc_start"
     /\ gh.applyReqs = 0 /\ ~gh.rollbackReq)
        => ~loc.apr

\* C15: when _perform_app_recover has returned, the record and the files of
\* the new version no longer exist.
C15_NewVersionDestroyed ==
    (op = "update" /\ pc = "done" /\ retval = "None")
        => (~Exists(loc.ver) /\ ~files[loc.ver])

\* C16: when _perform_app_recover has returned with the old version in
\* apply-success, every step of the recovery succeeded: the new version's
\* record and files are gone and the progress is that of a completed
\* recovery, with no step reported as failed.
C16_RecoverSuccessOnlyIfAllSteps ==
    (/\ op = "update" /\ pc = "done" /\ retval = "None"
     /\ status[loc.from] = APP_APPLY_SUCCESS)
        => /\ ~Exists(loc.ver) /\ ~files[loc.ver]
           /\ progress[loc.from] = ProgressRecoverCompleted

\* the releases of the old version's charts that the new version does not
\* have and that are still deployed
StaleReleases ==
    {r \in ChartsOf(loc.from) \ ChartsOf(loc.ver) : deployed[r] # 0}

C18_RemoveTrue ==
    (op = "remove" /\ pc = "done" /\ retval = "True") =>
        /\ \A v \in Versions : \A r \in DOMAIN relVersion[v] :
              relVersion[v][r] = 0
        /\ kube_app_get_inactive = {}
        /\ ~active[loc.ver]
        /\ status[loc.ver] = APP_UPLOAD_SUCCESS

\* C18 witness: version v2, reached by an update from v1, has been removed:
\* its records are back to 0 and the inactive record of v1 is destroyed
C18_Witness ==
    /\ op = "remove" /\ pc = "done" /\ retval = "True"
    /\ loc.ver = "v2"
    /\ ~Exists("v1")
    /\ DOMAIN relVersion["v2"] = ChartsOf("v2")
    /\ \A r \in ChartsOf("v2") : deployed[r] = 0

\* C19: at most one version of the application has the active flag set.
C19_OneActive ==
    Cardinality({v \in Versions : active[v]}) <= 1

\* C20: a release record changes its revision only when a successful apply
\* sets it to the deployed revision or a successful remove sets it to 0.
C20_RevisionChanges ==
    [][\A v \in Versions :
         \A r \in (DOMAIN relVersion[v]) \cap (DOMAIN relVersion'[v]) :
            relVersion'[v][r] # relVersion[v][r] =>
               \/ /\ pc = "ap_post"
                  /\ status'[v] = APP_APPLY_SUCCESS
                  /\ relVersion'[v][r] = deployed[r]
                  /\ relVersion'[v][r] > relVersion[v][r]
               \/ /\ pc = "rm_post"
                  /\ pc' = "done" /\ retval' = "True"
                  /\ relVersion'[v][r] = 0]_vars


(***************************************************************************)
(* _make_armada_request_with_monitor and its monitor task, on their own    *)
(***************************************************************************)
\* the monitor task exists and has not finished
MonitorAlive == monitor \in {"scheduled", "running", "updating"}

\* variant: the Timeout around the monitor loop never expires
NeverExpired(seconds) == FALSE

\* with Timeout(INSTALLATION_TIMEOUT, KubeAppProgressMonitorTimeout())
TimeoutExpired(seconds) == seconds >= INSTALLATION_TIMEOUT

\* an operation is about to make an armada request for version v1
InitMonitor ==
    /\ InitOperator /\ appName = HELM_APP_OPENSTACK
    /\ status["v1"] = APP_APPLY_SUCCESS
    /\ manifest_file = <<>> /\ charts = NotParsed
    /\ dict_order = [groups |-> <<>>, charts |-> <<>>]
    /\ NoMonitor
    /\ NoThreads

\* the operation that makes the request runs with the record at its
\* in-progress status (the request handler persisted it)
OperationStart ==
    /\ monPc = "idle"
    /\ status' = [status EXCEPT !["v1"] = APP_APPLY_IN_PROGRESS]
    /\ monPc' = "spawn"
    /\ UNCHANGED <<appName, phase, todo, progress, active, relVersion,
                   deployed, files, alarm, abort_requested, dockerVars,
                   opVars, abortVars, cnt, gh, parserVars, threadVars,
                   requestVars, monitor, mqueue, elapsed, new_status>>

\* mqueue = queue.Queue(); monitor = greenthread.spawn_after(1, ...); the
\* caller enters make_armada_request
MonitorSpawn ==
    /\ monPc = "spawn"
    /\ mqueue' = <<>>
    /\ monitor' = "scheduled"
    /\ monPc' = "requesting"
    /\ UNCHANGED <<operatorVars, parserVars, threadVars, requestVars,
                   elapsed, new_status>>

\* a second later _check_progress starts and arms its Timeout
CheckProgressBegin ==
    /\ monitor = "scheduled"
    /\ monitor' = "running"
    /\ elapsed' = 0
    /\ UNCHANGED <<operatorVars, parserVars, threadVars, requestVars,
                   mqueue, monPc, new_status>>

\* greenthread.sleep(1) at the end of a round: the Timeout may expire in it
\* and end the task
MonitorSleep ==
    /\ elapsed' = IF elapsed < INSTALLATION_TIMEOUT
                  THEN elapsed + 1 ELSE elapsed
    /\ monitor' = IF TimeoutExpired(elapsed + 1) THEN "exited" ELSE "running"

\* one round of the loop of _check_progress: the stop signal ends the task;
\* without it the log is read (an error ends the task); a new chart makes
\* the task call _update_app_status, which reads app.status before it
\* takes the lock; else the task sleeps a second
CheckProgress ==
    /\ monitor = "running"
    /\ IF mqueue # <<>>
       THEN /\ mqueue' = Tail(mqueue)
            /\ monitor' = "exited"
            /\ UNCHANGED <<elapsed, new_status>>
       ELSE /\ mqueue' = mqueue
            /\ \E log \in {"nothing", "chart", "error"} :
                  CASE log = "error" ->
                         /\ monitor' = "exited"
                         /\ UNCHANGED <<elapsed, new_status>>
                    [] log = "chart" ->
                         /\ new_status' = status["v1"]
                         /\ monitor' = "updating"
                         /\ UNCHANGED elapsed
                    [] OTHER ->
                         /\ MonitorSleep
                         /\ UNCHANGED new_status
    /\ UNCHANGED <<operatorVars, parserVars, threadVars, requestVars, monPc>>

\* the monitor inside _update_app_status: with self._lock:
\* app.update_status(new_status, new_progress); then the sleep of the round
MonitorUpdateAppStatus ==
    /\ monitor = "updating"
    /\ UpdateAppStatus("v1", new_status, ProgressMonitor)
    /\ new_status' = "none"
    /\ MonitorSleep
    /\ UNCHANGED <<appName, phase, todo, active, relVersion, deployed, files,
                   alarm, abort_requested, dockerVars, opVars, abortVars,
                   cnt, gh, parserVars, threadVars, requestVars, mqueue,
                   monPc>>

\* make_armada_request returns (it catches every exception itself)
MakeArmadaRequestReturns ==
    /\ monPc = "requesting"
    /\ monPc' = "put"
    /\ UNCHANGED <<operatorVars, parserVars, threadVars, requestVars,
                   monitor, mqueue, elapsed, new_status>>

\* mqueue.put('done')
MonitorPutDone ==
    /\ monPc = "put"
    /\ mqueue' = Append(mqueue, "done")
    /\ monPc' = "kill"
    /\ UNCHANGED <<operatorVars, parserVars, threadVars, requestVars,
                   monitor, elapsed, new_status>>

\* a kill that reaches a task only in its sleep
KilledAsleep(task) ==
    IF task \in {"scheduled", "running"} THEN "exited" ELSE task

\* greenthread.kill: a task not yet started is cancelled, a started one gets
\* GreenletExit where it waits (its sleep, the lock, the save) and has
\* unwound when kill returns
Killed(task) ==
    IF task \in {"scheduled", "running", "updating"} THEN "exited" ELSE task

\* monitor.kill(); return rc
MonitorKill ==
    /\ monPc = "kill"
    /\ monitor' = Killed(monitor)
    /\ monPc' = "returned"
    /\ UNCHANGED <<operatorVars, parserVars, threadVars, requestVars,
                   mqueue, elapsed, new_status>>

\* what the operations write once the request has returned
TerminalStatuses == {APP_APPLY_SUCCESS, APP_APPLY_FAILURE,
                     APP_UPLOAD_SUCCESS, APP_REMOVE_FAILURE}

\* the caller of _make_armada_request_with_monitor persists the outcome:
\* _update_app_status(app, <terminal status>, <progress>)
OperationPersists ==
    /\ monPc = "returned"
    /\ \E st \in TerminalStatuses :
          UpdateAppStatus("v1", st,
                          IF st \in {APP_APPLY_SUCCESS, APP_UPLOAD_SUCCESS}
                          THEN APP_PROGRESS_COMPLETED
                          ELSE ProgressReason)
    /\ monPc' = "persisted"
    /\ UNCHANGED <<appName, phase, todo, active, relVersion, deployed, files,
                   alarm, abort_requested, dockerVars, opVars, abortVars,
                   cnt, gh, parserVars, threadVars, requestVars, monitor,
                   mqueue, elapsed, new_status>>

NextMonitor ==
    \/ OperationStart
    \/ MonitorSpawn
    \/ CheckProgressBegin
    \/ CheckProgress
    \/ MonitorUpdateAppStatus
    \/ MakeArmadaRequestReturns
    \/ MonitorPutDone
    \/ MonitorKill
    \/ OperationPersists

\* the hub runs every task that is ready: the monitor when its sleep is
\* over, the caller once make_armada_request has returned; the request
\* itself is up to docker and may never return
SpecMonitor ==
    /\ InitMonitor /\ [][NextMonitor]_vars
    /\ WF_vars(OperationStart) /\ WF_vars(MonitorSpawn)
    /\ WF_vars(CheckProgressBegin) /\ WF_vars(CheckProgress)
    /\ WF_vars(MonitorUpdateAppStatus)
    /\ WF_vars(MonitorPutDone) /\ WF_vars(MonitorKill)
    /\ WF_vars(OperationPersists)

(***************************************************************************)
(* Worker threads of the conductor: the code that takes AppOperator._lock  *)
(* or DockerHelper._lock, or that works on what the locks are for (the     *)
(* registry table, the armada container, the Status Records), run by       *)
(* several threads at once.  An operation is a succession of these pieces. *)
(***************************************************************************)
MaxThreads == 2
MaxJobs == 2
MaxImages == 2

Threads == 1..MaxThreads
\* concurrent requests are about one application or about two
ThreadApps == {HELM_APP_OPENSTACK, CUSTOM_APP}

\* operator state the worker threads leave alone
threadFrame == <<appName, phase, todo, status, progress, active, relVersion,
                 deployed, files, alarm, armadaLock, op, pc, loc, retval,
                 abortPc, cnt, gh, parserVars, monitorVars, requestVars>>

NoTLoc == [jobs |-> 0, idx |-> 0, left |-> 0, refreshed |-> "default",
           seen |-> {}, val |-> "none"]

InitThreads ==
    /\ InitOperator /\ appName = CUSTOM_APP /\ ~Exists("v1")
    /\ manifest_file = <<>> /\ charts = NotParsed
    /\ dict_order = [groups |-> <<>>, charts |-> <<>>]
    /\ NoMonitor
    /\ armada_request = <<>>
    /\ docker_params \in BOOLEAN
    /\ app_lock = 0 /\ docker_lock = 0
    \* the first thread serves one application, the others it or another
    /\ tapp \in {f \in [Threads -> ThreadApps] : f[1] = HELM_APP_OPENSTACK}
    /\ tpc = [t \in Threads |-> "idle"]
    /\ tloc = [t \in Threads |-> NoTLoc]
    /\ kube_app = [a \in ThreadApps |->
                     [status |-> APP_APPLY_IN_PROGRESS, active |-> FALSE]]

\* the thread goes on to the next piece of its operation
StartJob(t, first) ==
    /\ tpc[t] = "idle"
    /\ tloc[t].jobs < MaxJobs
    /\ tpc' = [tpc EXCEPT ![t] = first]

\* the piece is over; its locals are gone
EndJob(t) ==
    /\ tpc' = [tpc EXCEPT ![t] = "idle"]
    /\ tloc' = [tloc EXCEPT ![t] = [NoTLoc EXCEPT !.jobs = tloc[t].jobs]]

\* a with block that would leave the lock held at its end
KeepAppLock(t) == app_lock' = app_lock

\* with self._lock: of AppOperator, entered and left
AcquireAppLock(t) == app_lock = 0 /\ app_lock' = t
ReleaseAppLock(t) == app_lock' = IF app_lock = t THEN 0 ELSE app_lock

\* DockerHelper._get_img_tag_with_registry: the table the rewrite is made
\* with is the shared one, as it is at the time of the call
Resolve(t) == registries_info

\* what the download of the images leaves alone
downloadFrame == <<threadFrame, abort_requested, container, docker_params,
                   docker_lock, tapp, kube_app>>

\* _download_images, up to the refresh of the registry table
DownloadImagesBegin(t) ==
    /\ StartJob(t, "dl_refresh")
    /\ AcquireAppLock(t)
    /\ tloc' = [tloc EXCEPT ![t] = [NoTLoc EXCEPT !.jobs = tloc[t].jobs + 1]]
    /\ UNCHANGED <<downloadFrame, registries_info>>

\* DockerHelper._retrieve_specified_registries under the lock: without
\* user registries the table is left as it is; with them their entries are
\* written, and a secret that cannot be read raises after the first
\* entries were written (KubeAppApplyFailure, the table is not reset)
RetrieveSpecifiedRegistries(t) ==
    /\ tpc[t] = "dl_refresh"
    /\ registries_info' = IF docker_params THEN "custom" ELSE registries_info
    /\ ReleaseAppLock(t)
    /\ \E raised \in {r \in BOOLEAN : r => docker_params} :
          IF raised
          THEN EndJob(t)
          ELSE /\ tpc' = [tpc EXCEPT ![t] = "dl_batch"]
               /\ tloc' = [tloc EXCEPT
                             ![t].idx = MAX_DOWNLOAD_ATTEMPTS - 1,
                             ![t].left = MaxImages,
                             ![t].refreshed = registries_info']
    /\ UNCHANGED downloadFrame

\* DockerHelper.download_an_image for the next image of the batch, and the
\* loop of _download_images over its result.  hosted: the tag is one of the
\* local registry; found: the local registry has it; ok: the pulls,
\* the tag and the push succeed.
DownloadAnImage(t) ==
    /\ tpc[t] = "dl_batch"
    /\ tloc[t].left > 0
    /\ \E hosted \in BOOLEAN, found \in BOOLEAN, ok \in BOOLEAN :
          LET skipped == hosted /\ is_app_aborted(tapp[t])
              resolves == ~skipped /\ ~(hosted /\ found)
              success == ~skipped /\ ok
              seen == IF resolves THEN tloc[t].seen \cup {Resolve(t)}
                      ELSE tloc[t].seen
          IN  IF success
              THEN /\ tloc' = [tloc EXCEPT ![t].left = @ - 1,
                                           ![t].seen = seen]
                   /\ tpc' = [tpc EXCEPT ![t] =
                                IF tloc[t].left = 1 THEN "dl_reset"
                                ELSE "dl_batch"]
              ELSE IF is_app_aborted(tapp[t]) \/ LastAttempt(tloc[t].idx)
              THEN EndJob(t)
              ELSE /\ tloc' = [tloc EXCEPT ![t].seen = seen]
                   /\ tpc' = [tpc EXCEPT ![t] = "dl_wait"]
    /\ UNCHANGED <<downloadFrame, registries_info, app_lock>>

\* time.sleep(DOWNLOAD_WAIT_BEFORE_RETRY), then the next attempt
DownloadWait(t) ==
    /\ tpc[t] = "dl_wait"
    /\ tloc' = [tloc EXCEPT ![t].idx = @ - 1, ![t].left = MaxImages]
    /\ tpc' = [tpc EXCEPT ![t] = "dl_batch"]
    /\ UNCHANGED <<downloadFrame, registries_info, app_lock>>

\* every image of the batch succeeded: with self._lock
DownloadResetLock(t) ==
    /\ tpc[t] = "dl_reset"
    /\ AcquireAppLock(t)
    /\ tpc' = [tpc EXCEPT ![t] = "dl_reset_locked"]
    /\ UNCHANGED <<downloadFrame, registries_info, tloc>>

\* DockerHelper._reset_registries_info under the lock; the download is done
ResetRegistriesInfo(t) ==
    /\ tpc[t] = "dl_reset_locked"
    /\ registries_info' = "default"
    /\ ReleaseAppLock(t)
    /\ EndJob(t)
    /\ UNCHANGED downloadFrame

\* what the writes of a Status Record leave alone
recordFrame == <<threadFrame, abort_requested, container, registries_info,
                 docker_params, docker_lock, tapp>>

\* the statuses an operation in flight writes
WrittenStatuses == {APP_APPLY_SUCCESS, APP_APPLY_FAILURE}

\* _update_app_status: with self._lock
UpdateAppStatusLock(t) ==
    /\ StartJob(t, "us_save")
    /\ AcquireAppLock(t)
    /\ \E st \in WrittenStatuses :
          tloc' = [tloc EXCEPT ![t].jobs = @ + 1, ![t].val = st]
    /\ UNCHANGED <<recordFrame, kube_app>>

\* _update_app_status: app.update_status(new_status, new_progress) saves
\* the record, and the lock is released
UpdateAppStatusSave(t) ==
    /\ tpc[t] = "us_save"
    /\ kube_app' = [kube_app EXCEPT ![tapp[t]].status = tloc[t].val]
    /\ ReleaseAppLock(t)
    /\ EndJob(t)
    /\ UNCHANGED recordFrame

\* Application.update_active as perform_app_apply (True) and
\* perform_app_remove (False) call it, outside any lock: the save is begun
\* if the flag differs
UpdateActive(t) ==
    /\ StartJob(t, "ua_save")
    /\ \E flag \in BOOLEAN :
          IF kube_app[tapp[t]].active # flag
          THEN tloc' = [tloc EXCEPT ![t].jobs = @ + 1, ![t].val = flag]
          ELSE FALSE
    /\ UNCHANGED <<recordFrame, app_lock, kube_app>>

\* Application.update_active: self._kube_app.save() returns
UpdateActiveSave(t) ==
    /\ tpc[t] = "ua_save"
    /\ kube_app' = [kube_app EXCEPT ![tapp[t]].active = tloc[t].val]
    /\ EndJob(t)
    /\ UNCHANGED <<recordFrame, app_lock>>

\* activate and deactivate: with self._lock
ActivateLock(t) ==
    /\ StartJob(t, "act_save")
    /\ AcquireAppLock(t)
    /\ \E flag \in BOOLEAN :
          tloc' = [tloc EXCEPT ![t].jobs = @ + 1, ![t].val = flag]
    /\ UNCHANGED <<recordFrame, kube_app>>

\* activate and deactivate: app.update_active(flag) under the lock
Activate(t) ==
    /\ tpc[t] = "act_save"
    /\ kube_app' = [kube_app EXCEPT ![tapp[t]].active = tloc[t].val]
    /\ ReleaseAppLock(t)
    /\ EndJob(t)
    /\ UNCHANGED recordFrame

\* what an armada request leaves alone
requestFrame == <<threadFrame, abort_requested, registries_info,
                  docker_params, app_lock, tapp, kube_app>>

\* variant of AcquireDockerLock: the caller does not wait for the lock
TakeDockerLock(t) == docker_lock' = t

\* with self._lock: of DockerHelper, entered and left
AcquireDockerLock(t) == docker_lock = 0 /\ docker_lock' = t
ReleaseDockerLock(t) == docker_lock' = IF docker_lock = t THEN 0
                                       ELSE docker_lock

\* the thread is inside DockerHelper._start_armada_service
InStartArmadaService(t) == tpc[t] \in {"ar_get", "ar_restart", "ar_create"}

\* DockerHelper.make_armada_request: docker.from_env; an exception makes
\* the request return False
MakeArmadaRequest(t) ==
    /\ StartJob(t, "ar_lock")
    /\ tloc' = [tloc EXCEPT ![t].jobs = @ + 1]
    /\ UNCHANGED <<requestFrame, container, docker_lock>>

\* make_armada_request: with self._lock, entering _start_armada_service
StartArmadaServiceLock(t) ==
    /\ tpc[t] = "ar_lock"
    /\ \E clientOk \in BOOLEAN :
          IF clientOk
          THEN /\ AcquireDockerLock(t)
               /\ tpc' = [tpc EXCEPT ![t] = "ar_get"]
               /\ tloc' = tloc
          ELSE /\ EndJob(t)
               /\ docker_lock' = docker_lock
    /\ UNCHANGED <<requestFrame, container>>

\* _start_armada_service: client.containers.get and the container's
\* status; a running container is returned as it is, one that is not
\* running is to be restarted, and an exception (no such container, docker
\* error) leads to the creation
StartArmadaServiceGet(t) ==
    /\ tpc[t] = "ar_get"
    /\ \E getOk \in BOOLEAN :
          IF container = "absent" \/ ~getOk
          THEN /\ tpc' = [tpc EXCEPT ![t] = "ar_create"]
               /\ docker_lock' = docker_lock
          ELSE IF container # "running"
          THEN /\ tpc' = [tpc EXCEPT ![t] = "ar_restart"]
               /\ docker_lock' = docker_lock
          ELSE /\ tpc' = [tpc EXCEPT ![t] = "ar_exec"]
               /\ ReleaseDockerLock(t)
    /\ UNCHANGED <<requestFrame, container, tloc>>

\* _start_armada_service: container.restart(); an exception leads to the
\* creation
StartArmadaServiceRestart(t) ==
    /\ tpc[t] = "ar_restart"
    /\ \E dockerOk \in BOOLEAN :
          IF dockerOk /\ container # "absent"
          THEN /\ container' = "running"
               /\ tpc' = [tpc EXCEPT ![t] = "ar_exec"]
               /\ ReleaseDockerLock(t)
          ELSE /\ container' = container
               /\ tpc' = [tpc EXCEPT ![t] = "ar_create"]
               /\ docker_lock' = docker_lock
    /\ UNCHANGED <<requestFrame, tloc>>

\* _start_armada_service: the image is pulled if it is not there and
\* client.containers.run creates the container; on an error (a container
\* of the name exists, docker error) None is returned and the request
\* returns False
StartArmadaServiceCreate(t) ==
    /\ tpc[t] = "ar_create"
    /\ ReleaseDockerLock(t)
    /\ \E dockerOk \in BOOLEAN :
          IF dockerOk /\ container = "absent"
          THEN /\ container' = "running"
               /\ tpc' = [tpc EXCEPT ![t] = "ar_exec"]
               /\ tloc' = tloc
          ELSE /\ container' = container
               /\ EndJob(t)
    /\ UNCHANGED requestFrame

\* make_armada_request: armada_svc.exec_run(cmd) and the return
ArmadaExecRun(t) ==
    /\ tpc[t] = "ar_exec"
    /\ EndJob(t)
    /\ UNCHANGED <<requestFrame, container, docker_lock>>

\* what perform_app_abort and the Abort Registry leave alone
abortFrame == <<threadFrame, registries_info, docker_params, docker_lock,
                tapp, kube_app>>

\* perform_app_abort: the status is read from the database; the request is
\* ignored unless an apply, an update or a remove is in progress
PerformAppAbort(t) ==
    /\ StartJob(t, "ab_flag")
    /\ kube_app[tapp[t]].status \in AbortableStatuses
    /\ tloc' = [tloc EXCEPT ![t].jobs = @ + 1]
    /\ UNCHANGED <<abortFrame, abort_requested, container, app_lock>>

\* _set_abort_flag: with self._lock
SetAbortFlagLock(t) ==
    /\ tpc[t] = "ab_flag"
    /\ AcquireAppLock(t)
    /\ tpc' = [tpc EXCEPT ![t] = "ab_flag_locked"]
    /\ UNCHANGED <<abortFrame, abort_requested, container, tloc>>

\* _set_abort_flag: the flag of the application is set, the lock released
SetAbortFlagUnlock(t) ==
    /\ tpc[t] = "ab_flag_locked"
    /\ abort_requested' = SetAbortFlag(abort_requested, tapp[t])
    /\ ReleaseAppLock(t)
    /\ tpc' = [tpc EXCEPT ![t] = "ab_stop"]
    /\ UNCHANGED <<abortFrame, container, tloc>>

\* perform_app_abort: with self._lock
StopArmadaRequestLock(t) ==
    /\ tpc[t] = "ab_stop"
    /\ AcquireAppLock(t)
    /\ tpc' = [tpc EXCEPT ![t] = "ab_stop_locked"]
    /\ UNCHANGED <<abortFrame, abort_requested, container, tloc>>

\* perform_app_abort: stop_armada_request and _clear_armada_locks under
\* the lock, both best effort (no armada lock resource exists here)
StopArmadaRequestUnlock(t) ==
    /\ tpc[t] = "ab_stop_locked"
    /\ \E dockerOk \in BOOLEAN :
          container' = StopArmadaRequest(container, dockerOk)
    /\ ReleaseAppLock(t)
    /\ EndJob(t)
    /\ UNCHANGED <<abortFrame, abort_requested>>

\* _register_app_abort and _deregister_app_abort: with self._lock
RegisterAppAbortLock(t) ==
    /\ StartJob(t, "reg_locked")
    /\ AcquireAppLock(t)
    /\ \E register \in BOOLEAN :
          tloc' = [tloc EXCEPT ![t].jobs = @ + 1, ![t].val = register]
    /\ UNCHANGED <<abortFrame, abort_requested, container>>

\* _register_app_abort and _deregister_app_abort: the entry of the
\* application is written or deleted, the lock released
RegisterAppAbortUnlock(t) ==
    /\ tpc[t] = "reg_locked"
    /\ abort_requested' =
          IF tloc[t].val THEN RegisterAppAbort(abort_requested, tapp[t])
          ELSE DeregisterAppAbort(abort_requested, tapp[t])
    /\ ReleaseAppLock(t)
    /\ EndJob(t)
    /\ UNCHANGED <<abortFrame, container>>

\* perform_app_upload and _perform_app_recover: with self._lock around
\* _extract_tarfile and around _upload_helm_charts
UploadLock(t) ==
    /\ StartJob(t, "up_locked")
    /\ AcquireAppLock(t)
    /\ tloc' = [tloc EXCEPT ![t].jobs = @ + 1]
    /\ UNCHANGED <<abortFrame, abort_requested, container>>

\* _extract_tarfile or _upload_helm_charts returns or raises; either way
\* the with statement releases the lock
UploadUnlock(t) ==
    /\ tpc[t] = "up_locked"
    /\ ReleaseAppLock(t)
    /\ EndJob(t)
    /\ UNCHANGED <<abortFrame, abort_requested, container>>

NextThreads ==
    \/ \E t \in Threads : DownloadImagesBegin(t)
    \/ \E t \in Threads : RetrieveSpecifiedRegistries(t)
    \/ \E t \in Threads : DownloadAnImage(t)
    \/ \E t \in Threads : DownloadWait(t)
    \/ \E t \in Threads : DownloadResetLock(t)
    \/ \E t \in Threads : ResetRegistriesInfo(t)
    \/ \E t \in Threads : UpdateAppStatusLock(t)
    \/ \E t \in Threads : UpdateAppStatusSave(t)
    \/ \E t \in Threads : UpdateActive(t)
    \/ \E t \in Threads : UpdateActiveSave(t)
    \/ \E t \in Threads : ActivateLock(t)
    \/ \E t \in Threads : Activate(t)
    \/ \E t \in Threads : MakeArmadaRequest(t)
    \/ \E t \in Threads : StartArmadaServiceLock(t)
    \/ \E t \in Threads : StartArmadaServiceGet(t)
    \/ \E t \in Threads : StartArmadaServiceRestart(t)
    \/ \E t \in Threads : StartArmadaServiceCreate(t)
    \/ \E t \in Threads : ArmadaExecRun(t)
    \/ \E t \in Threads : PerformAppAbort(t)
    \/ \E t \in Threads : SetAbortFlagLock(t)
    \/ \E t \in Threads : SetAbortFlagUnlock(t)
    \/ \E t \in Threads : StopArmadaRequestLock(t)
    \/ \E t \in Threads : StopArmadaRequestUnlock(t)
    \/ \E t \in Threads : RegisterAppAbortLock(t)
    \/ \E t \in Threads : RegisterAppAbortUnlock(t)
    \/ \E t \in Threads : UploadLock(t)
    \/ \E t \in Threads : UploadUnlock(t)

SpecThreads == InitThreads /\ [][NextThreads]_vars

(***************************************************************************)
(* DockerHelper.make_armada_request serving a rollback request, on its own *)
(***************************************************************************)
MaxQueued == 2
CONTAINER_ABNORMAL_EXIT_CODE == 137

\* exit codes of a command run in the container
ExecExitCodes == {0, 1, CONTAINER_ABNORMAL_EXIT_CODE}

\* the queues of releases _perform_app_rollback hands over: release,
\* revision to roll back to, and whether the chart is sequenced
AppReleases ==
    {q \in UNION {[1..n -> [release : Releases, version : 1..2,
                            sequenced : BOOLEAN]] : n \in 0..MaxQueued} :
        \A i, j \in DOMAIN q : q[i].release = q[j].release => i = j}

\* variant of ExitBreaks: no exit code ends the loop
ExitNeverBreaks(exit_code) == FALSE

\* if exit_code != 0: ... break
ExitBreaks(exit_code) == exit_code # 0

\* the in-container command of a release: --wait --timeout 1800 if sequenced
RollbackCmd(app_release) ==
    [release |-> app_release.release, version |-> app_release.version,
     wait |-> app_release.sequenced]

InitRequest ==
    /\ InitOperator /\ appName = CUSTOM_APP /\ ~Exists("v1")
    /\ manifest_file = <<>> /\ charts = NotParsed
    /\ dict_order = [groups |-> <<>>, charts |-> <<>>]
    /\ NoMonitor
    /\ docker_params = FALSE
    /\ app_lock = 0 /\ docker_lock = 0
    /\ tapp = <<>> /\ tpc = <<>> /\ tloc = <<>> /\ kube_app = <<>>
    /\ \E q \in AppReleases :
          armada_request = [app_releases |-> q, pc |-> "start", rc |-> TRUE,
                            next |-> 1, cmds |-> <<>>, exits |-> <<>>]

rollbackFrame == <<operatorVars, parserVars, monitorVars, threadVars>>

\* docker.from_env, _start_armada_service and the removal of the old log
\* file; without a service, or on an exception, the request returns False
RollbackRequestBegin ==
    /\ armada_request.pc = "start"
    /\ \E armada_svc \in BOOLEAN, raised \in BOOLEAN :
          armada_request' =
             IF armada_svc /\ ~raised
             THEN [armada_request EXCEPT !.pc = "loop"]
             ELSE [armada_request EXCEPT !.pc = "returned", !.rc = FALSE]
    /\ UNCHANGED rollbackFrame

\* one round of 'for app_release in app_releases': exec_run of the
\* rollback command of the release; an exception of exec_run is caught by
\* the handler around the whole request
RollbackExecRun ==
    /\ armada_request.pc = "loop"
    /\ armada_request.next <= Len(armada_request.app_releases)
    /\ LET app_release == armada_request.app_releases[armada_request.next]
           cmds == Append(armada_request.cmds, RollbackCmd(app_release))
       IN \/ \E exit_code \in ExecExitCodes :
               armada_request' =
                  [armada_request EXCEPT
                     !.cmds = cmds,
                     !.exits = Append(@, exit_code),
                     !.rc = IF exit_code # 0 THEN FALSE ELSE @,
                     !.next = @ + 1,
                     !.pc = IF ExitBreaks(exit_code) THEN "returned" ELSE @]
          \/ armada_request' =
                [armada_request EXCEPT !.pc = "returned", !.rc = FALSE]
    /\ UNCHANGED rollbackFrame

\* the loop is over: return rc
RollbackRequestReturn ==
    /\ armada_request.pc = "loop"
    /\ armada_request.next > Len(armada_request.app_releases)
    /\ armada_request' = [armada_request EXCEPT !.pc = "returned"]
    /\ UNCHANGED rollbackFrame

NextRequest ==
    \/ RollbackRequestBegin
    \/ RollbackExecRun
    \/ RollbackRequestReturn

SpecRequest == InitRequest /\ [][NextRequest]_vars

(***************************************************************************)
(* Properties of the manifest parser                                       *)
(***************************************************************************)
Range(f) == {f[i] : i \in DOMAIN f}
Parsed == charts.parses > 0
Returned == Parsed /\ ~charts.raised
\* the documents of the file, by kind
ManifestDoc == {d \in Range(manifest_file) : d.schema = SCHEMA_MANIFEST}
GroupDocs == {d \in Range(manifest_file) : d.schema = SCHEMA_CHART_GROUP}
DeclaredCharts ==
    {d.name : d \in {x \in Range(manifest_file) :
                        x.schema = SCHEMA_CHART /\ ChartKeys \subseteq x.keys}}
SkippedCharts ==
    {d.name : d \in {x \in Range(manifest_file) :
                        x.schema = SCHEMA_CHART /\ ~(ChartKeys \subseteq x.keys)}}
DeclaredGroups == {d.name : d \in GroupDocs}
ChartsOfGroup(g) ==
    UNION {Range(d.chart_group) : d \in {x \in GroupDocs : x.name = g}}
GroupedCharts == UNION {ChartsOfGroup(g) : g \in DeclaredGroups}
ListedGroups == UNION {Range(d.chart_groups) : d \in ManifestDoc}
\* positions of chart c in the returned list
Positions(c) == {i \in DOMAIN charts.list : charts.list[i].metadata_name = c}

\* the cases the parser is asked to cope with
ChartInTwoGroups ==
    \E c \in DeclaredCharts :
        Cardinality({g \in DeclaredGroups : c \in ChartsOfGroup(g)}) > 1
GroupListsUndeclaredChart == ~(GroupedCharts \subseteq DeclaredCharts)
ManifestListsUndeclaredGroup ==
    \E d \in ManifestDoc : /\ "release_prefix" \in d.keys
                           /\ ~(Range(d.chart_groups) \subseteq DeclaredGroups)

\* C21: for every manifest, _get_list_of_charts returns a list with exactly
\* one descriptor per declared chart document, none dropped and none
\* duplicated, also when a chart is listed by two groups, a group lists an
\* undeclared chart or the manifest lists an undeclared group; every chart
\* that belongs to a group comes before every chart that belongs to none.
C21_OneDescriptorPerChart ==
    Parsed =>
        /\ ~charts.raised
        /\ \A c \in DeclaredCharts : Cardinality(Positions(c)) = 1
        /\ \A i \in DOMAIN charts.list :
              charts.list[i].metadata_name \in DeclaredCharts
        /\ \A i, j \in DOMAIN charts.list :
              (/\ charts.list[i].metadata_name \in GroupedCharts
               /\ charts.list[j].metadata_name \notin GroupedCharts) => i < j

\* what the parser does keep: a list that is returned holds each declared
\* chart once, grouped charts first
C21_WhenReturned ==
    Returned =>
        /\ \A c \in DeclaredCharts : Cardinality(Positions(c)) = 1
        /\ \A i \in DOMAIN charts.list :
              charts.list[i].metadata_name \in DeclaredCharts
        /\ \A i, j \in DOMAIN charts.list :
              (/\ charts.list[i].metadata_name \in GroupedCharts
               /\ charts.list[j].metadata_name \notin GroupedCharts) => i < j
\* the parse of a manifest with a chart in two groups raises
C21_RaisedOnChartInTwoGroups ==
    Parsed /\ ChartInTwoGroups /\ charts.raised

\* the release prefix the manifest document declares (empty: none)
DeclaredPrefix ==
    IF \E d \in ManifestDoc : "release_prefix" \in d.keys
    THEN (CHOOSE d \in ManifestDoc : "release_prefix" \in d.keys).release_prefix
    ELSE <<>>

\* C22: when the manifest declares a release prefix P, every descriptor
\* _get_list_of_charts returns has the release name P-R, R the release the
\* chart declares, after the first parse and after a parse of the same
\* manifest again (the prefix is never there twice); with no prefix declared
\* the release names are the declared ones.
C22_ReleasePrefix ==
    Returned =>
        \A i \in DOMAIN charts.list :
            charts.list[i].release =
                IF DeclaredPrefix # <<>>
                THEN DeclaredPrefix \o <<"-">>
                         \o DeclaredRelease(charts.list[i].metadata_name)
                ELSE DeclaredRelease(charts.list[i].metadata_name)

\* a manifest with a prefix and two charts was parsed twice
C22_Witness ==
    /\ Returned /\ charts.parses = MaxParses
    /\ DeclaredPrefix = <<"osh">>
    /\ Len(charts.list) = 2
    /\ charts.list[1].release = <<"osh", "-", "ra">>

\* the sequenced flag group g declares
SequencedFlag(g) ==
    \E d \in GroupDocs : d.name = g /\ "sequenced" \in d.keys /\ d.sequenced
\* the group list the manifest document declares
DeclaredGroupOrder ==
    IF \E d \in ManifestDoc : "chart_groups" \in d.keys
    THEN (CHOOSE d \in ManifestDoc : "chart_groups" \in d.keys).chart_groups
    ELSE <<>>
\* the charts of the groups gs with their flags, group after group
RECURSIVE InstallOrder(_)
InstallOrder(gs) ==
    IF gs = <<>> THEN <<>>
    ELSE LET d == CHOOSE x \in GroupDocs : x.name = Head(gs)
         IN [i \in DOMAIN d.chart_group |->
                [metadata_name |-> d.chart_group[i],
                 sequenced |-> SequencedFlag(Head(gs))]]
            \o InstallOrder(Tail(gs))
\* the returned list starts with the charts of the declared groups, in the
\* declared order; then come the charts of the other groups, then the
\* charts of no group, not sequenced
FollowsDeclaredOrder ==
    LET head == InstallOrder(DeclaredGroupOrder)
        rest == (Len(head) + 1)..Len(charts.list)
    IN /\ Len(head) <= Len(charts.list)
       /\ \A i \in DOMAIN head :
             /\ charts.list[i].metadata_name = head[i].metadata_name
             /\ charts.list[i].sequenced = head[i].sequenced
       /\ \A i \in rest :
             IF charts.list[i].metadata_name \in GroupedCharts
             THEN \E g \in DeclaredGroups \ Range(DeclaredGroupOrder) :
                     /\ charts.list[i].metadata_name \in ChartsOfGroup(g)
                     /\ charts.list[i].sequenced = SequencedFlag(g)
             ELSE ~charts.list[i].sequenced
       /\ \A i, j \in rest :
             (/\ charts.list[i].metadata_name \in GroupedCharts
              /\ charts.list[j].metadata_name \notin GroupedCharts) => i < j

\* C26: the list _get_list_of_charts returns follows the group order the
\* manifest document declares (each group's charts in the group's order,
\* with the group's sequenced flag), then the charts of groups the manifest
\* does not list, then the charts of no group with sequenced false; also
\* when the manifest document declares no release prefix.
C26_DeclaredOrder ==
    (Returned /\ DeclaredGroupOrder \in SeqUpTo(DeclaredGroups, MaxListLen))
        => FollowsDeclaredOrder

\* what the parser does keep: the order holds when the manifest document
\* has its release_prefix key (or when there is no group list to follow)
C26_OrderWhenPrefixKey ==
    (/\ Returned
     /\ DeclaredGroupOrder \in SeqUpTo(DeclaredGroups, MaxListLen)
     /\ \A d \in ManifestDoc : "release_prefix" \in d.keys)
        => FollowsDeclaredOrder
\* a manifest document without release_prefix, two groups listed in one
\* order and returned in the other
C26_OrderLost ==
    /\ Returned
    /\ \E d \in ManifestDoc : "release_prefix" \notin d.keys
    /\ DeclaredGroupOrder = <<"g2", "g1">>
    /\ Len(charts.list) = 2
    /\ charts.list[1].metadata_name \in ChartsOfGroup("g1")
    /\ charts.list[1].metadata_name \notin ChartsOfGroup("g2")

\* the manifest is consistent but for documents that lack a key: no chart
\* is listed twice, every listed chart has a document, every listed group
\* has one and is listed once
NoDuplicates(seq) == \A i, j \in DOMAIN seq : seq[i] = seq[j] => i = j
ConsistentButForKeys ==
    /\ ~ChartInTwoGroups
    /\ \A d \in GroupDocs : NoDuplicates(d.chart_group)
    /\ GroupedCharts \subseteq DeclaredCharts \cup SkippedCharts
    /\ \A d \in ManifestDoc :
          /\ NoDuplicates(d.chart_groups)
          /\ Range(d.chart_groups) \subseteq DeclaredGroups

\* C27: the parse of a manifest in which a document lacks a required key
\* skips that document and returns, without raising, the descriptors of the
\* well-formed charts, also when a group refers to the skipped chart; an
\* empty manifest yields no chart.
C27_MalformedSkipped ==
    (Parsed /\ ConsistentButForKeys) =>
        /\ ~charts.raised
        /\ {charts.list[i].metadata_name : i \in DOMAIN charts.list}
              = DeclaredCharts
        /\ manifest_file = <<>> => charts.list = <<>>

\* what the parser does keep: the same, when no group refers to a chart
\* whose document is skipped
C27_SkippedWhenUnreferenced ==
    (Parsed /\ ConsistentButForKeys /\ GroupedCharts \cap SkippedCharts = {}) =>
        /\ ~charts.raised
        /\ {charts.list[i].metadata_name : i \in DOMAIN charts.list}
              = DeclaredCharts
        /\ manifest_file = <<>> => charts.list = <<>>
\* a group refers to a chart whose document lacks a key, and the parse raises
C27_RaisedOnSkippedChart ==
    /\ Parsed /\ ConsistentButForKeys /\ charts.raised
    /\ GroupedCharts \cap SkippedCharts # {}

(***************************************************************************)
(* Properties of the monitored request                                     *)
(***************************************************************************)
\* C23: the monitor task started by _make_armada_request_with_monitor always
\* terminates: after the request has returned and the stop signal was sent,
\* and by its own hard timeout (INSTALLATION_TIMEOUT) when the stop signal
\* is never sent; no monitor task outlives the call that started it.
C23_MonitorTerminates ==
    /\ [](monPc = "returned" => monitor = "exited")
    /\ [](monitor = "running" => elapsed < INSTALLATION_TIMEOUT)
    /\ (MonitorAlive ~> monitor = "exited")

\* the request never returned, no stop signal was sent, and the monitor
\* ended at its timeout
C23_Witness ==
    /\ monitor = "exited" /\ monPc = "requesting" /\ mqueue = <<>>
    /\ elapsed = INSTALLATION_TIMEOUT

(***************************************************************************)
(* Properties of the rollback and of the image download                    *)
(***************************************************************************)
\* C24: after a rollback (the update's to-old-version direction) whose
\* rollback request succeeded, the target version has status apply-success
\* and its active flag is true.
C24_RollbackMarksActive ==
    [][(OpStep /\ pc = "rb_requesting" /\ loc'.result)
          => (/\ status'[loc.ver] = APP_APPLY_SUCCESS
              /\ active'[loc.ver])]_vars

\* the status half alone
C24_RollbackStatus ==
    [][(OpStep /\ pc = "rb_requesting" /\ loc'.result)
          => status'[loc.ver] = APP_APPLY_SUCCESS]_vars

\* the releases of version to with a revision that version from does not
\* record, or records with another revision
DiffersFrom(to, from) ==
    {r \in DOMAIN relVersion[to] :
        /\ relVersion[to][r] # 0
        /\ (r \notin DOMAIN relVersion[from]
            \/ relVersion[from][r] # relVersion[to][r])}

\* C25: in _perform_app_rollback the releases queued for rollback are exactly
\* the target's releases with a non-zero recorded revision that are absent
\* from the other version's release table or recorded there with a different
\* revision; the pre-upgrade jobs of each queued release are deleted before
\* the single rollback request is issued, and the request covers exactly the
\* queued releases.
C25_RollbackQueue ==
    /\ [][(OpStep /\ pc = "rb_request" /\ pc' = "rb_requesting")
             => (/\ loc.releases = DiffersFrom(loc.ver, loc.from)
                 /\ gh.jobsDeleted = loc.releases
                 /\ ~gh.rollbackReq /\ gh'.rollbackReq
                 /\ loc'.releases = loc.releases)]_vars
    /\ [][(OpStep /\ pc = "rb_requesting")
             => (/\ \A r \in Releases \ loc.releases :
                       deployed'[r] = deployed[r]
                 /\ loc'.result =>
                       \A r \in loc.releases : deployed'[r] # deployed[r]
                 /\ pc' # "rb_requesting" /\ pc' # "rb_request")]_vars

\* a rollback request for a queue that holds a release and leaves one out
C25_Witness ==
    /\ pc = "rb_requesting" /\ gh.rollbackReq
    /\ loc.releases # {}
    /\ loc.releases # {r \in DOMAIN relVersion[loc.ver] :
                          relVersion[loc.ver][r] # 0}

\* the positions inside the retry loop of _download_images
DownloadLoopPcs == {"ap_download", "ap_download_wait"}

\* C28: _download_images runs at most MAX_DOWNLOAD_ATTEMPTS (3) batch
\* attempts, starts a further attempt only after a batch in which an image
\* failed, stops at the first batch in which every image succeeded, and does
\* not wait the retry backoff after the last attempt.
C28_BoundedAttempts ==
    /\ [](pc \in DownloadLoopPcs =>
             loc.idx \in 0..(MAX_DOWNLOAD_ATTEMPTS - 1))
    /\ [][(OpStep /\ pc' = "ap_download") =>
             \/ pc = "ap_download_chk" /\ loc'.idx = MAX_DOWNLOAD_ATTEMPTS - 1
             \/ pc = "ap_download_wait" /\ loc'.idx = loc.idx - 1]_vars
    /\ [][(OpStep /\ pc = "ap_download") =>
             \/ pc' = "ap_download_wait" /\ loc.idx > 0
                   /\ registries_info' = registries_info
             \/ pc' = "ap_except" /\ loc'.exc = KubeAppApplyFailure
             \/ pc' \notin DownloadLoopPcs \cup {"ap_except"}
                   /\ registries_info' = "default"]_vars

\* the third batch attempt is about to run
C28_Witness ==
    /\ pc = "ap_download" /\ loc.idx = 0

\* C29: in the image download retry loop, if the application's abort flag is
\* set when the loop is about to wait before a retry, the download raises
\* the user-abort failure at once: it never sleeps the retry backoff and
\* never starts another batch attempt while the flag is set.
C29_AbortBeforeWait ==
    [][(OpStep /\ pc = "ap_download_wait" /\ is_app_aborted(appName)) =>
          (pc' = "ap_except" /\ loc'.exc = KubeAppApplyFailure)]_vars

\* what the loop does keep: a batch that meets a failed image while the
\* flag is set raises, without a wait and without another batch
C29_AbortAtFailedImage ==
    [][(OpStep /\ pc = "ap_download" /\ is_app_aborted(appName)) =>
          \/ pc' = "ap_except" /\ loc'.exc = KubeAppApplyFailure
          \/ pc' \notin DownloadLoopPcs \cup {"ap_except"}]_vars
\* a batch attempt starts while the flag is set
C29_BatchWhileAborted ==
    /\ pc = "ap_download" /\ is_app_aborted(appName)
    /\ loc.idx < MAX_DOWNLOAD_ATTEMPTS - 1

\* C30: whenever _download_images finishes, whether all images were
\* downloaded, the attempts were exhausted or the user aborted, the registry
\* table (DockerHelper.registries_info) is back at its default content.
C30_RegistriesReset ==
    [][(OpStep /\ pc = "ap_download" /\ pc' \notin DownloadLoopPcs) =>
          registries_info' = "default"]_vars

\* what the loop does keep: the table is reset when every image of a batch
\* was downloaded
C30_ResetOnSuccess ==
    [][(OpStep /\ pc = "ap_download"
           /\ pc' \notin DownloadLoopPcs \cup {"ap_except"}) =>
          registries_info' = "default"]_vars
\* the attempts ran out and the table still holds the user's registries
C30_CustomAfterFailure ==
    /\ pc = "ap_except" /\ gh.exhausted /\ registries_info = "custom"

(***************************************************************************)
(* Properties of the worker threads                                        *)
(***************************************************************************)
\* the thread is inside the download loop of _download_images
Downloading(t) == tpc[t] \in {"dl_batch", "dl_wait", "dl_reset"}

\* C31: every image resolution made during the download of an application
\* sees the registry table as the download refreshed it at its start, also
\* when the download of another application finishes meanwhile and resets
\* the shared table.
C31_ResolutionSeesRefreshedTable ==
    \A t \in Threads : tloc[t].seen \subseteq {tloc[t].refreshed}

\* What holds of the code: a resolution sees the table as refreshed or the
\* default table.
C31_RefreshedOrDefault ==
    \A t \in Threads : tloc[t].seen \subseteq {tloc[t].refreshed, "default"}

\* a download that refreshed the table to the user registries has resolved
\* an image with the default table, another download having reset it
C31_ResolvedWithResetTable ==
    \E t \in Threads :
        /\ Downloading(t)
        /\ tloc[t].refreshed = "custom"
        /\ "default" \in tloc[t].seen


\* the thread is inside the save of the Status Record of its application
Writing(t) == tpc[t] \in {"us_save", "ua_save", "act_save"}

\* C32: every write of a Status Record by AppOperator (status, progress or
\* active flag) is made while the writing thread holds the AppOperator
\* lock, so that no two writes of the same record are in progress at once.
C32_WritesUnderLock ==
    /\ \A t \in Threads : Writing(t) => app_lock = t
    /\ \A t, u \in Threads :
          (t # u /\ Writing(t) /\ Writing(u)) => tapp[t] # tapp[u]

\* What holds of the code: the writes made through _update_app_status and
\* through activate and deactivate are made under the lock.
C32_StatusWritesUnderLock ==
    \A t \in Threads : tpc[t] \in {"us_save", "act_save"} => app_lock = t

\* update_active saves the record of an application while another thread
\* saves the same record under the lock
C32_WritesInterleave ==
    \E t, u \in Threads :
        /\ tpc[t] = "ua_save" /\ tpc[u] \in {"us_save", "act_save"}
        /\ tapp[t] = tapp[u]


\* C33: at most one thread at a time is inside _start_armada_service,
\* however many threads call make_armada_request; there a container that
\* is running is used as it is, one that exists but is not running is
\* restarted, and one that is absent is created.
C33_OneStarterAtATime ==
    /\ [](Cardinality({t \in Threads : InStartArmadaService(t)}) <= 1)
    /\ [](\A t \in Threads : InStartArmadaService(t) => docker_lock = t)
    /\ [][\A t \in Threads :
            /\ (tpc[t] = "ar_get" /\ tpc'[t] # "ar_get") =>
                  /\ container = "absent" => tpc'[t] = "ar_create"
                  /\ tpc'[t] = "ar_restart" => container = "stopped"
                  /\ tpc'[t] = "ar_exec" => container = "running"
            /\ (tpc[t] = "ar_restart" /\ tpc'[t] = "ar_exec") =>
                  container' = "running"
            /\ (tpc[t] = "ar_create" /\ tpc'[t] = "ar_exec") =>
                  (container = "absent" /\ container' = "running")
            /\ (InStartArmadaService(t) /\ tpc'[t] = "ar_exec") =>
                  docker_lock' = 0]_vars

\* a thread restarts the stopped container while another thread, about to
\* start the service too, waits for the lock
C33_Witness ==
    \E t, u \in Threads :
        /\ tpc[t] = "ar_restart" /\ container = "stopped"
        /\ tpc[u] = "ar_lock" /\ docker_lock = t


(***************************************************************************)
(* Properties of the rollback request                                      *)
(***************************************************************************)
\* C34: a rollback request runs one in-container rollback per queued
\* release, in the order of the list; it stops at the first release whose
\* exit code is not 0, no rollback being run for a later release; and it
\* returns True only if every rollback it ran exited with code 0 (and
\* every queued release had its rollback).
C34_RollbackPerRelease ==
    LET q == armada_request.app_releases
        cmds == armada_request.cmds
        exits == armada_request.exits
    IN  /\ Len(cmds) <= Len(q)
        /\ Len(exits) = Len(cmds)
        /\ \A k \in 1..Len(cmds) : cmds[k] = RollbackCmd(q[k])
        /\ \A k \in 1..Len(exits) :
              exits[k] # 0 => /\ k = Len(exits)
                              /\ armada_request.pc = "returned"
                              /\ ~armada_request.rc
        /\ (armada_request.pc = "returned" /\ armada_request.rc) =>
              /\ Len(cmds) = Len(q)
              /\ \A k \in 1..Len(exits) : exits[k] = 0

\* the rollback of the first of two queued releases failed and the request
\* returned False without a rollback of the second
C34_Witness ==
    /\ armada_request.pc = "returned"
    /\ ~armada_request.rc
    /\ Len(armada_request.app_releases) = 2
    /\ Len(armada_request.cmds) = 1
    /\ armada_request.exits[1] # 0


(***************************************************************************)
(* Properties of the operations, continued                                 *)
(***************************************************************************)
\* the wait for the charts in pending install timed out: _abort_operation
\* has put the record in apply-failure before the failure path is entered
PendingTimedOut ==
    /\ pc \in {"ap_fail", "ap_fail2"}
    /\ status[loc.ver] = APP_APPLY_FAILURE

\* C35: for stx-openstack, perform_app_apply makes the apply request only
\* after a poll found no chart in pending install; it polls at most
\* CHARTS_PENDING_INSTALL_ITERATIONS times, goes from one poll to the next
\* only with the abort flag found unset, and when charts are still pending
\* after the last poll the apply ends with status apply-failure and False,
\* without a request to armada.
C35_PendingInstallPoll ==
    /\ [](pc = "ap_pending" =>
             /\ appName = HELM_APP_OPENSTACK
             /\ loc.i < CHARTS_PENDING_INSTALL_ITERATIONS
             /\ gh.applyReqs = 0)
    /\ [][(appName = HELM_APP_OPENSTACK /\ OpStep) =>
            /\ (pc' = "ap_manifest" /\ pc # "ap_manifest") =>
                  pc = "ap_pending"
            /\ (pc' = "ap_requesting" /\ pc # "ap_requesting") =>
                  pc = "ap_manifest"
            /\ (pc = "ap_pending" /\ pc' = "ap_pending") =>
                  (loc'.i = loc.i + 1 /\ ~is_app_aborted(appName))
            /\ (pc = "ap_pending" /\ pc' # "ap_pending") =>
                  /\ pc' \in {"ap_manifest", "ap_fail"}
                  /\ gh'.applyReqs = 0
            /\ (pc = "ap_pending" /\ status' # status) =>
                  /\ loc.i = CHARTS_PENDING_INSTALL_ITERATIONS - 1
                  /\ pc' = "ap_fail"
                  /\ status'[loc.ver] = APP_APPLY_FAILURE
            /\ PendingTimedOut =>
                  /\ pc' \in {"ap_fail", "ap_fail2", "done", "upd_result"}
                  /\ status'[loc.ver] = APP_APPLY_FAILURE
                  /\ gh'.applyReqs = 0
                  /\ (pc = "ap_fail2") =>
                        IF loc.caller = "none"
                        THEN pc' = "done" /\ retval' = "False"
                        ELSE pc' = "upd_result" /\ ~loc'.result]_vars

\* the wait of an apply of stx-openstack has just timed out: the record is
\* in apply-failure, no request was made
C35_Witness ==
    /\ appName = HELM_APP_OPENSTACK
    /\ pc = "ap_fail" /\ PendingTimedOut
    /\ progress[loc.ver] = APP_PROGRESS_ABORTED
    /\ gh.applyReqs = 0


\* C36: perform_app_abort on an application whose persisted status is not
\* apply-, update- or remove-in-progress (or that has no single current
\* record) changes nothing: the request ends there, and the Abort Registry,
\* the armada container, armada's lock and the Status Records are as they
\* were.
C36_IgnoredAbortChangesNothing ==
    [][(/\ AbortTaken
        /\ ~(/\ kube_app_get_ok
             /\ status[kube_app_get] \in {APP_APPLY_IN_PROGRESS,
                                          APP_UPDATE_IN_PROGRESS,
                                          APP_REMOVE_IN_PROGRESS}))
          => /\ abortPc' = "idle"
             /\ abort_requested' = abort_requested
             /\ container' = container
             /\ armadaLock' = armadaLock
             /\ status' = status
             /\ progress' = progress
             /\ active' = active
             /\ alarm' = alarm]_vars

\* an abort request was made before or during the upload that is the first
\* operation of the system, and was ignored
C36_Witness ==
    /\ cnt.aborts = 1 /\ cnt.restarts = 0 /\ cnt.ops = 1
    /\ abortPc = "idle"
    /\ op = "upload" /\ pc \notin {"idle", "done"}
    /\ status["v1"] = APP_UPLOAD_IN_PROGRESS
    /\ appName \notin DOMAIN abort_requested
    /\ container = "absent"


(***************************************************************************)
(* Properties of the monitored request, continued                          *)
(***************************************************************************)
\* C37: a progress write by the monitor task never replaces a status written
\* by the operation: the monitor's write leaves the persisted status as it
\* is, and once the operation has persisted a terminal status (apply-success,
\* apply-failure, upload-success, remove-failure) the status stays terminal,
\* also when the monitor had read the status for an update before.
C37_MonitorKeepsStatus ==
    /\ [][monitor = "updating" /\ monitor' # "updating"
             => status' = status]_vars
    /\ [](monPc = "persisted" => status["v1"] \in TerminalStatuses)

\* the monitor had read the in-progress status for an update when it was
\* killed, and the operation has persisted apply-success since
C37_Witness ==
    /\ monPc = "persisted" /\ monitor = "exited"
    /\ new_status = APP_APPLY_IN_PROGRESS
    /\ status["v1"] = APP_APPLY_SUCCESS


\* C38: when an apply, an update (its recovery included) or a remove has
\* ended and has left the status of a version at apply-success or
\* upload-success, no alarm is set for the application.
C38_NoAlarmAfterSuccess ==
    (pc = "done" /\ op \in {"apply", "update", "remove"})
        => \A v \in Versions :
              status[v] \in {APP_APPLY_SUCCESS, APP_UPLOAD_SUCCESS}
                  => alarm = NoAlarm


\* C38, what the code keeps: an alarm that outlives an operation which left
\* apply-success or upload-success is left by a recovery that ended in its
\* except clause (recover completed, cleanup failed)
C38_AlarmLeftOnlyByFailedCleanup ==
    (pc = "done" /\ op \in {"apply", "update", "remove"})
        => \A v \in Versions :
              (/\ status[v] \in {APP_APPLY_SUCCESS, APP_UPLOAD_SUCCESS}
               /\ alarm # NoAlarm)
                  => /\ op = "update" /\ v = loc.from
                     /\ progress[v] = ProgressRecoverCleanupFailed

\* an update has ended in a recovery whose cleanup failed: the old version
\* is back at apply-success and the alarm of the update is still set
C38_AlarmLeft ==
    /\ pc = "done" /\ op = "update" /\ retval = "None"
    /\ status[loc.from] = APP_APPLY_SUCCESS
    /\ progress[loc.from] = ProgressRecoverCleanupFailed
    /\ alarm \in {ALARM_UPDATING, ALARM_APPLY_FAILED}


(***************************************************************************)
(* Properties of the worker threads, continued                             *)
(***************************************************************************)
\* where a thread is about to enter, and where it is inside, a with block
\* of AppOperator._lock and of DockerHelper._lock
AppLockWaitPcs == {"dl_reset", "ab_flag", "ab_stop"}
AppLockedPcs == {"dl_refresh", "dl_reset_locked", "us_save", "act_save",
                 "ab_flag_locked", "ab_stop_locked", "reg_locked",
                 "up_locked"}
DockerLockWaitPcs == {"ar_lock"}
DockerLockedPcs == {"ar_get", "ar_restart", "ar_create"}

\* thread t can take its next step
CanStep(t) ==
    ENABLED (NextThreads /\ <<tpc'[t], tloc'[t]>> # <<tpc[t], tloc[t]>>)

\* C39: no deadlock.  A lock is held exactly by a thread inside a with
\* block of it, and such a thread neither waits for nor holds a lock besides
\* (no thread takes a lock it holds, none holds one lock while it waits for
\* the other); every thread that is inside an operation can take its next
\* step, or waits for a lock whose holder can take its next step; and a
\* thread that is idle with work left can start it or waits likewise.
C39_NoDeadlock ==
    /\ \A t \in Threads :
          /\ app_lock = t <=> tpc[t] \in AppLockedPcs
          /\ docker_lock = t <=> tpc[t] \in DockerLockedPcs
          /\ ~(app_lock = t /\ docker_lock = t)
    /\ app_lock \in Threads \cup {0} /\ docker_lock \in Threads \cup {0}
    /\ \A t \in Threads :
          (tpc[t] # "idle" \/ tloc[t].jobs < MaxJobs)
              => \/ CanStep(t)
                 \/ /\ tpc[t] \in AppLockWaitPcs \cup {"idle"}
                    /\ \E h \in Threads \ {t} : app_lock = h /\ CanStep(h)
                 \/ /\ tpc[t] \in DockerLockWaitPcs
                    /\ \E h \in Threads \ {t} : docker_lock = h /\ CanStep(h)

\* one thread is inside a with block of AppOperator._lock while another one
\* has arrived at a with block of the same lock and waits
C39_Witness ==
    \E t, u \in Threads :
        /\ t # u /\ app_lock = t
        /\ tpc[u] \in AppLockWaitPcs


\* the apply or the rollback request of the current update was issued and
\* succeeded
UpdateRequestSucceeded == gh.applyOk \/ gh.rollbackOk

\* C40: perform_app_update sets the status of the new version to
\* apply-success, and returns True, only if the apply or rollback request
\* for the new version was issued and succeeded.
C40_SuccessOnlyAfterRequest ==
    op = "update"
        => /\ status[loc.ver] = APP_APPLY_SUCCESS => UpdateRequestSucceeded
           /\ (pc = "done" /\ retval = "True") => UpdateRequestSucceeded

\* C40, what the code keeps: apply-success of the new version without a
\* successful request is written by the except Exception clause of
\* perform_app_update only (progress: update completed, cleanup failed),
\* and an update that returns True has left the new version at
\* apply-success
C40_SuccessWithoutRequestOnlyByCatchAll ==
    op = "update"
        => /\ (status[loc.ver] = APP_APPLY_SUCCESS /\ ~UpdateRequestSucceeded)
                 => /\ pc = "done" /\ retval = "True"
                    /\ progress[loc.ver] = ProgressUpdateCleanupFailed
           /\ (pc = "done" /\ retval = "True")
                 => status[loc.ver] = APP_APPLY_SUCCESS

\* an update has returned True with the new version at apply-success, and
\* neither an apply nor a rollback request was ever issued
C40_SuccessWithoutRequest ==
    /\ op = "update" /\ pc = "done" /\ retval = "True"
    /\ status[loc.ver] = APP_APPLY_SUCCESS
    /\ gh.applyReqs = 0 /\ ~gh.rollbackReq

====
